---- MODULE Spec2Model ----
(***************************************************************************)
(* The editing core of Six: text buffer, cursor metrics and the mode       *)
(* state machine.  The repository holds several snapshots of the core;     *)
(* each one that a property is about is modelled as its own specification  *)
(* over the same variables:                                                *)
(*   SpecAdvance    Mode::advance              (six/src/mode.rs)           *)
(*   SpecEventLoop  event_loop                 (src/state.rs)              *)
(*   SpecHandleKey  handle_key                 (six/src/state.rs)          *)
(*   SpecMain       event_loop                 (src/main.rs)               *)
(*   SpecCursor     the offset Cursor metrics  (six/src/cursor/mod.rs)     *)
(*   SpecPoints     the row/column iterators   (six/src/cursor.rs)         *)
(*   SpecBuf        Buf                        (src/buffer.rs)             *)
(*   SpecBounded    the Bounded iterator       (six/src/cursor/bounded.rs) *)
(*   SpecCounted    the counted Cursor motions (src/cursor.rs)             *)
(* Text is a sequence of UTF-8 bytes; a character is the sequence of its   *)
(* bytes.                                                                  *)
(***************************************************************************)
EXTENDS Integers, Sequences, FiniteSets, TLC

VARIABLES variant, text, cursor, mode, registers, queue, nextId, fired, panicked, steps,
          last

vars ==
    <<variant, text, cursor, mode, registers, queue, nextId, fired, panicked, steps, last>>

----------------------------------------------------------------------------
(* Bounds                                                                   *)

MaxInit == 3
MaxLen == 3
MaxQuery == 2
MaxConts == 2
MaxSteps == 4

----------------------------------------------------------------------------
(* Characters and bytes                                                     *)

None == -1

\* the outcome of an operation that aborts the process (a Rust panic)
Panics == -2

\* the registers of State in main.rs: the count register "#"
NoRegisters == [count |-> None]

ChA == <<97>>
ChSpace == <<32>>
ChNewline == <<10>>
ChEAcute == <<195, 169>>

TextChars == {ChA, ChSpace, ChNewline, ChEAcute}

InputChars == {ChA, ChNewline, ChEAcute}

is_whitespace(ch) == ch = ChSpace \/ ch = ChNewline

RECURSIVE Concat(_)
Concat(ss) == IF ss = <<>> THEN <<>> ELSE Head(ss) \o Concat(Tail(ss))

RECURSIVE CharSeqs(_)
CharSeqs(n) ==
    IF n = 0 THEN {<<>>}
    ELSE LET shorter == CharSeqs(n - 1)
         IN  shorter \cup {Append(s, ch) : s \in shorter, ch \in TextChars}

Strings(n) == {t \in {Concat(s) : s \in CharSeqs(n)} : Len(t) <= n}

\* u8 lead-byte classification of Codepoint::next
ByteWidth(b) == IF b < 128 THEN 1 ELSE IF b < 224 THEN 2 ELSE IF b < 240 THEN 3 ELSE 4

is_char_boundary(t, i) ==
    IF i = 0 \/ i = Len(t) THEN TRUE
    ELSE IF i < 0 \/ i > Len(t) THEN FALSE
    ELSE t[i + 1] < 128 \/ t[i + 1] >= 192

Boundaries(t) == {i \in 0..Len(t) : is_char_boundary(t, i)}

\* str::get / Buffer::get at a byte offset: the character starting there
NoChar == <<>>

Min(a, b) == IF a <= b THEN a ELSE b

CharAt(t, i) ==
    IF i < 0 \/ i >= Len(t) THEN NoChar
    ELSE SubSeq(t, i + 1, Min(Len(t), i + ByteWidth(t[i + 1])))

RECURSIVE CharsFrom(_, _)
CharsFrom(t, i) ==
    IF i >= Len(t) THEN <<>>
    ELSE <<CharAt(t, i)>> \o CharsFrom(t, i + ByteWidth(t[i + 1]))

\* str::chars
Chars(t) == CharsFrom(t, 0)

Splice(t, from, to, ins) == SubSeq(t, 1, from) \o ins \o SubSeq(t, to + 1, Len(t))

----------------------------------------------------------------------------
(* Cursor metrics over byte offsets (six/src/cursor)                        *)

\* as_bytes()[index] aborts when the index is past the end
CodepointNext(c, t) ==
    IF c = Len(t) THEN None ELSE IF c > Len(t) THEN Panics ELSE c + ByteWidth(t[c + 1])

RECURSIVE BackToBoundary(_, _)
BackToBoundary(i, t) ==
    IF is_char_boundary(t, i) THEN i ELSE BackToBoundary(i - 1, t)

\* Codepoint::next_back stepping one byte back without looking for a boundary
CodepointPrevByte(c, t) == IF c = 0 THEN None ELSE c - 1

CodepointPrev(c, t) ==
    IF c = 0 THEN None ELSE BackToBoundary(c - 1, t)

has_line_break(c, t) == CharAt(t, c) = ChNewline

BoundedNext(c, t) ==
    LET n == CodepointNext(c, t)
    IN  IF n < 0 THEN n ELSE IF has_line_break(n, t) THEN None ELSE n

BoundedPrev(c, t) ==
    LET p == CodepointPrev(c, t)
    IN  IF p < 0 THEN p ELSE IF has_line_break(p, t) THEN None ELSE p

is_word_head(c, t) ==
    IF c + 1 > Len(t) \/ ~is_char_boundary(t, c + 1) THEN FALSE
    ELSE LET pAt == BackToBoundary(c, t)
             p == CharAt(t, pAt)
             q == IF pAt = 0 THEN NoChar ELSE CharAt(t, BackToBoundary(pAt - 1, t))
         IN  ~(p = NoChar \/ is_whitespace(p)) /\ (q = NoChar \/ is_whitespace(q))

RECURSIVE HeadNext(_, _)
HeadNext(c, t) ==
    LET n == CodepointNext(c, t)
    IN  IF n < 0 THEN n ELSE IF is_word_head(n, t) THEN n ELSE HeadNext(n, t)

RECURSIVE HeadPrev(_, _)
HeadPrev(c, t) ==
    LET p == CodepointPrev(c, t)
    IN  IF p < 0 THEN p ELSE IF is_word_head(p, t) THEN p ELSE HeadPrev(p, t)

is_word_tail(c, t) ==
    LET ch == CharAt(t, c)
        n == CodepointNext(c, t)
        after == IF n < 0 THEN NoChar ELSE CharAt(t, n)
    IN  (ch # NoChar /\ ~is_whitespace(ch)) /\ (after = NoChar \/ is_whitespace(after))

RECURSIVE TailNext(_, _)
TailNext(c, t) ==
    LET n == CodepointNext(c, t)
    IN  IF n < 0 THEN n ELSE IF is_word_tail(n, t) THEN n ELSE TailNext(n, t)

RECURSIVE TailPrev(_, _)
TailPrev(c, t) ==
    LET p == CodepointPrev(c, t)
    IN  IF p < 0 THEN p ELSE IF is_word_tail(p, t) THEN p ELSE TailPrev(p, t)

\* the largest (smallest) member of a set of offsets, None when it is empty
LastOf(hits) == IF hits = {} THEN None ELSE CHOOSE i \in hits : \A j \in hits : j <= i

FirstOf(hits) == IF hits = {} THEN None ELSE CHOOSE i \in hits : \A j \in hits : i <= j

\* str::rfind('\n') in t[..c] and str::find('\n') in t[c..]
RFindNewline(t, c) == LastOf({i \in 0..(Min(c, Len(t)) - 1) : t[i + 1] = 10})

FindNewline(t, c) == FirstOf({i \in c..(Len(t) - 1) : t[i + 1] = 10})

\* the offset after the line break found at nl, 0 when there is none
LineStart(nl) == IF nl = None THEN 0 ELSE nl + 1

\* Cursor::to_col: display width of the text between the line start and c
to_col(c, t) ==
    Len(Chars(SubSeq(t, LineStart(RFindNewline(t, c)) + 1, Min(c, Len(t)))))

\* Option::unwrap_or on an offset
OrElse(found, default) == IF found = None THEN default ELSE found

\* iter::<Bounded>().take_while(col <= column).last(); n is the next position
RECURSIVE TakeWhileLast(_, _, _, _)
TakeWhileStep(n, t, column, acc) ==
    IF n < 0 THEN acc
    ELSE IF to_col(n, t) <= column THEN TakeWhileLast(n, t, column, n)
    ELSE acc

TakeWhileLast(c, t, column, acc) == TakeWhileStep(BoundedNext(c, t), t, column, acc)

\* iter::<Bounded>().rev().find(col == column); p is the previous position
RECURSIVE RevFindCol(_, _, _)
RevFindStep(p, t, column) ==
    IF p < 0 THEN None
    ELSE IF to_col(p, t) = column THEN p
    ELSE RevFindCol(p, t, column)

RevFindCol(c, t, column) == RevFindStep(BoundedPrev(c, t), t, column)

\* Line::next from the line break at nl
LineNextFrom(nl, t, column) ==
    IF nl = None THEN None
    ELSE OrElse(TakeWhileLast(nl + 1, t, column, None), nl + 1)

\* Line::next_back from the line break at nl
LinePrevFrom(nl, t, column) ==
    IF nl = None THEN None ELSE OrElse(RevFindCol(nl, t, column), nl)

\* Line::new takes text[..offset], which aborts off a character boundary
LineNext(c, t) ==
    IF ~is_char_boundary(t, c) THEN Panics
    ELSE LineNextFrom(FindNewline(t, c), t, to_col(c, t))

LinePrev(c, t) ==
    IF ~is_char_boundary(t, c) THEN Panics
    ELSE LinePrevFrom(RFindNewline(t, c), t, to_col(c, t))

\* Cursor::forward::<It> / Cursor::backward::<It>
CursorForward(metric, c, t) ==
    CASE metric = "Codepoint" -> CodepointNext(c, t)
      [] metric = "Bounded" -> BoundedNext(c, t)
      [] metric = "Line" -> LineNext(c, t)
      [] metric = "Head" -> HeadNext(c, t)
      [] metric = "Tail" -> TailNext(c, t)

CursorBackward(metric, c, t) ==
    CASE metric = "Codepoint" -> CodepointPrev(c, t)
      [] metric = "Bounded" -> BoundedPrev(c, t)
      [] metric = "Line" -> LinePrev(c, t)
      [] metric = "Head" -> HeadPrev(c, t)
      [] metric = "Tail" -> TailPrev(c, t)

----------------------------------------------------------------------------
(* Buffer of Mode::advance: the text together with its cursor               *)

\* Buffer::forward / Buffer::backward: move the cursor over a metric; the
\* value handed back is the position the cursor left (as set_cursor does).
BufferForward(metric, c, t) ==
    LET n == CursorForward(metric, c, t)
    IN  IF n < 0 THEN [ret |-> n, cursor |-> c] ELSE [ret |-> c, cursor |-> n]

BufferBackward(metric, c, t) ==
    LET n == CursorBackward(metric, c, t)
    IN  IF n < 0 THEN [ret |-> n, cursor |-> c] ELSE [ret |-> c, cursor |-> n]

\* Buffer::append: insert the character at the cursor and advance past it
BufferAppend(b, ch) ==
    [text |-> Splice(b.text, b.cursor, b.cursor, ch), cursor |-> b.cursor + Len(ch)]

\* String::replace_range / String::insert accept only in-range char boundaries
RangeOk(t, start, end) ==
    start <= end /\ end <= Len(t) /\ is_char_boundary(t, start) /\ is_char_boundary(t, end)

\* Buffer::edit(text, start..end)
BufferEdit(t, start, end, ins) == Splice(t, start, end, ins)

\* Buffer::insert(ch, at)
BufferInsert(t, at, ch) == Splice(t, at, at, ch)

EmptyBuffer == [text |-> <<>>, cursor |-> 0]

----------------------------------------------------------------------------
(* Mode (six/src/mode.rs)                                                   *)

Normal == [kind |-> "Normal"]
InsertMode == [kind |-> "Insert"]
Select(a) == [kind |-> "Select", anchor |-> a]

\* Mode::to_operator; the continuation is the closure `name` over `cap`
to_operator(name, id, cap) ==
    [kind |-> "Operator", name |-> name, id |-> id, cap |-> cap]

\* Mode::to_query
to_query(name, id, length, cap) ==
    [kind |-> "Query", name |-> name, id |-> id, length |-> length,
     buffer |-> EmptyBuffer, cap |-> cap]

Res(adv, m, t, c, calls, nid) ==
    [adv |-> adv, mode |-> m, text |-> t, cursor |-> c, calls |-> calls,
     panic |-> FALSE, nextId |-> nid]

PanicRes(m, t, c, calls, nid) ==
    [adv |-> "Panic", mode |-> m, text |-> t, cursor |-> c, calls |-> calls,
     panic |-> TRUE, nextId |-> nid]

\* Mode::escape keeping the mode it is called in out of reach: it enters Insert
escapeToInsert(t, c, calls, nid) == Res("Continue", InsertMode, t, c, calls, nid)

\* Mode::abort and Mode::escape
abort(t, c, calls, nid) == Res("Halt", Normal, t, c, calls, nid)
escape(t, c, calls, nid) == Res("Continue", Normal, t, c, calls, nid)

RangeCall(m, start, end) ==
    [id |-> m.id, kind |-> "Operator", name |-> m.name, start |-> start, end |-> end,
     str |-> <<>>]

StrCall(m, str) ==
    [id |-> m.id, kind |-> "Query", name |-> m.name, start |-> None, end |-> None,
     str |-> str]

\* the `delete` closure staying in the Operator mode that held it
DeleteContKeepsOperator(m, t, c, start, end, nid) ==
    IF ~RangeOk(t, start, end) THEN PanicRes(m, t, c, <<RangeCall(m, start, end)>>, nid)
    ELSE Res("Continue", m, BufferEdit(t, start, end, <<>>), start,
             <<RangeCall(m, start, end)>>, nid)

\* the `delete` closure of (mode, Operation::Delete)
DeleteCont(m, t, c, start, end, nid) ==
    IF ~RangeOk(t, start, end) THEN PanicRes(m, t, c, <<RangeCall(m, start, end)>>, nid)
    ELSE Res("Continue", m.cap.then, BufferEdit(t, start, end, <<>>), start,
             <<RangeCall(m, start, end)>>, nid)

\* the outer `surround` closure of (Normal, Operation::Surround)
SurroundRangeCont(m, t, c, start, end, nid) ==
    Res("Continue", to_query("Surround", nid, 2, [start |-> start, end |-> end]),
        t, c, <<RangeCall(m, start, end)>>, nid + 1)

\* and_then(context, (start, end)) of an Operator mode
CallOperator(m, t, c, start, end, nid) ==
    IF m.name = "Delete" THEN DeleteCont(m, t, c, start, end, nid)
    ELSE SurroundRangeCont(m, t, c, start, end, nid)

\* the inner `surround` closure: sandwich.chars(), prefix, suffix
SurroundStrCont(m, t, c, sandwich, nid) ==
    LET chars == Chars(sandwich)
        start == m.cap.start
        end == m.cap.end
        call == <<StrCall(m, sandwich)>>
    IN  IF Len(chars) < 2 THEN PanicRes(m, t, c, call, nid)
        ELSE IF end > Len(t) \/ ~is_char_boundary(t, end) THEN PanicRes(m, t, c, call, nid)
        ELSE LET t1 == BufferInsert(t, end, chars[2])
             IN  IF start > Len(t1) \/ ~is_char_boundary(t1, start)
                 THEN PanicRes(m, t1, c, call, nid)
                 ELSE escape(BufferInsert(t1, start, chars[1]), c, call, nid)

\* the `eval` closure leaving the query open when the script raises an error
EvalContKeepsQueryOnError(m, t, c, program, sc, nid) ==
    IF sc.ok THEN Res("Continue", m.cap.then, t, c, <<StrCall(m, program)>>, nid)
    ELSE Res("Halt", m, t, c, <<StrCall(m, program)>>, nid)

\* the `eval` closure: the script sc is evaluated; sc.ok says whether it
\* returned without an error
EvalCont(m, t, c, program, sc, nid) ==
    IF sc.ok THEN Res("Continue", m.cap.then, t, c, <<StrCall(m, program)>>, nid)
    ELSE abort(t, c, <<StrCall(m, program)>>, nid)

\* and_then(context, buffer.as_str()) of a Query mode
CallQuery(m, t, c, str, sc, nid) ==
    IF m.name = "Eval" THEN EvalCont(m, t, c, str, sc, nid)
    ELSE SurroundStrCont(m, t, c, str, nid)

\* (Query, Operation::Input(ch))
QueryInput(m, t, c, ch, sc, nid) ==
    LET b == BufferAppend(m.buffer, ch)
    IN  IF ch = ChNewline \/ (m.length # None /\ Len(b.text) = m.length)
        THEN CallQuery(m, t, c, b.text, sc, nid)
        ELSE Res("Continue", [m EXCEPT !.buffer = b], t, c, <<>>, nid)

\* (Query, Operation::Delete)
QueryDelete(m, t, c, nid) ==
    LET b == m.buffer
        n == CursorForward("Codepoint", b.cursor, b.text)
        end == IF n = None THEN Len(b.text) ELSE n
    IN  Res("Continue",
            [m EXCEPT !.buffer = [text |-> BufferEdit(b.text, b.cursor, end, <<>>),
                                  cursor |-> b.cursor]],
            t, c, <<>>, nid)

\* (Query, Operation::Left) aborting to Normal at the start of the sub-buffer
QueryLeftAborts(m, t, c, nid) ==
    LET r == BufferBackward("Codepoint", m.buffer.cursor, m.buffer.text)
    IN  IF r.ret >= 0
        THEN Res("Continue", [m EXCEPT !.buffer.cursor = r.cursor], t, c, <<>>, nid)
        ELSE abort(t, c, <<>>, nid)

\* (Query, Operation::Left)
QueryLeft(m, t, c, nid) ==
    LET r == BufferBackward("Codepoint", m.buffer.cursor, m.buffer.text)
    IN  IF r.ret >= 0
        THEN Res("Continue", [m EXCEPT !.buffer.cursor = r.cursor], t, c, <<>>, nid)
        ELSE Res("Halt", m, t, c, <<>>, nid)

\* MoveBackward with the pair handed over as (end, start)
MoveBackwardSwapped(m, t, c, metric, nid) ==
    LET r == BufferBackward(metric, c, t)
    IN  IF r.ret = Panics THEN PanicRes(m, t, c, <<>>, nid)
        ELSE IF r.ret # None
        THEN IF m.kind = "Operator"
             THEN CallOperator(m, t, r.cursor, r.ret, r.cursor, nid)
             ELSE Res("Continue", m, t, r.cursor, <<>>, nid)
        ELSE abort(t, c, <<>>, nid)

\* the backward motion arms: Backward, Left, Up, Head{reverse}, Tail{reverse}
MoveBackward(m, t, c, metric, nid) ==
    LET r == BufferBackward(metric, c, t)
    IN  IF r.ret = Panics THEN PanicRes(m, t, c, <<>>, nid)
        ELSE IF r.ret # None
        THEN IF m.kind = "Operator"
             THEN LET end == r.ret
                      start == r.cursor
                  IN  CallOperator(m, t, r.cursor, start, end, nid)
             ELSE Res("Continue", m, t, r.cursor, <<>>, nid)
        ELSE abort(t, c, <<>>, nid)

\* the forward motion arms: Forward, Right, Down, Head, Tail
MoveForward(m, t, c, metric, nid) ==
    LET r == BufferForward(metric, c, t)
    IN  IF r.ret = Panics THEN PanicRes(m, t, c, <<>>, nid)
        ELSE IF r.ret # None
        THEN IF m.kind = "Operator"
             THEN LET start == r.ret
                      end == r.cursor
                  IN  CallOperator(m, t, r.cursor, start, end, nid)
             ELSE Res("Continue", m, t, r.cursor, <<>>, nid)
        ELSE abort(t, c, <<>>, nid)

Op(type) == [type |-> type, reverse |-> FALSE, ch |-> NoChar]
HeadOp(reverse) == [type |-> "Head", reverse |-> reverse, ch |-> NoChar]
TailOp(reverse) == [type |-> "Tail", reverse |-> reverse, ch |-> NoChar]
InputOp(ch) == [type |-> "Input", reverse |-> FALSE, ch |-> ch]

Operations ==
    {Op(ty) : ty \in {"Escape", "Insert", "Left", "Right", "Up", "Down", "Backward",
                       "Forward", "Bol", "Eol", "Delete", "Surround", "Eval", "Command"}}
    \cup {HeadOp(r) : r \in BOOLEAN} \cup {TailOp(r) : r \in BOOLEAN}
    \cup {InputOp(ch) : ch \in InputChars}

\* Mode::advance(self, context, event); the arms in the order of the match
advance(m, t, c, event, sc, nid) ==
    LET ty == event.type
    IN  IF ty = "Escape" THEN escape(t, c, <<>>, nid)
        ELSE IF ty = "Insert" THEN Res("Continue", InsertMode, t, c, <<>>, nid)
        ELSE IF m.kind = "Query" /\ ty = "Input" THEN QueryInput(m, t, c, event.ch, sc, nid)
        ELSE IF m.kind = "Query" /\ ty = "Delete" THEN QueryDelete(m, t, c, nid)
        ELSE IF m.kind = "Query" /\ ty = "Left" THEN QueryLeft(m, t, c, nid)
        ELSE IF ty = "Input"
             THEN LET b == BufferAppend([text |-> t, cursor |-> c], event.ch)
                  IN  IF ~RangeOk(t, c, c) THEN PanicRes(m, t, c, <<>>, nid)
                      ELSE Res("Continue", m, b.text, b.cursor, <<>>, nid)
        ELSE IF ty = "Backward" THEN MoveBackward(m, t, c, "Codepoint", nid)
        ELSE IF ty = "Left" THEN MoveBackward(m, t, c, "Bounded", nid)
        ELSE IF ty = "Up" THEN MoveBackward(m, t, c, "Line", nid)
        ELSE IF ty = "Head" /\ event.reverse THEN MoveBackward(m, t, c, "Head", nid)
        ELSE IF ty = "Tail" /\ event.reverse THEN MoveBackward(m, t, c, "Tail", nid)
        ELSE IF ty = "Forward" THEN MoveForward(m, t, c, "Codepoint", nid)
        ELSE IF ty = "Right" THEN MoveForward(m, t, c, "Bounded", nid)
        ELSE IF ty = "Down" THEN MoveForward(m, t, c, "Line", nid)
        ELSE IF ty = "Head" THEN MoveForward(m, t, c, "Head", nid)
        ELSE IF ty = "Tail" THEN MoveForward(m, t, c, "Tail", nid)
        ELSE IF ty = "Delete"
             THEN Res("Continue", to_operator("Delete", nid, [then |-> m]), t, c, <<>>, nid + 1)
        ELSE IF ty = "Eval"
             THEN Res("Continue", to_query("Eval", nid, None, [then |-> m]), t, c, <<>>,
                      nid + 1)
        ELSE IF m.kind = "Normal" /\ ty = "Surround"
             THEN Res("Continue", to_operator("Surround", nid, [none |-> TRUE]), t, c, <<>>,
                      nid + 1)
        ELSE Res("Halt", m, t, c, <<>>, nid)

----------------------------------------------------------------------------
(* SpecAdvance: a caller feeding batches of operations to Mode::advance     *)

Scripts == [ok : BOOLEAN]

NoScript == [ok |-> TRUE]

Batches ==
    {<<o>> : o \in Operations}
    \cup {<<Op("Delete"), Op("Left")>>, <<Op("Delete"), HeadOp(FALSE)>>,
          <<Op("Left"), InputOp(ChA)>>, <<Op("Bol"), InputOp(ChA)>>}

NoLast ==
    [op |-> Op("None"), kind |-> "None", adv |-> "None", calls |-> <<>>, dropped |-> 0]

InitAdvance ==
    /\ variant = "advance"
    /\ text \in Strings(MaxInit)
    /\ cursor \in Boundaries(text)
    /\ mode = Normal
    /\ registers = NoRegisters
    /\ queue = <<>>
    /\ nextId = 1
    /\ fired = [i \in 1..MaxConts |-> 0]
    /\ panicked = FALSE
    /\ steps = 0
    /\ last = NoLast

\* the caller's bookkeeping of which continuations have run
Fire(f, calls) ==
    [i \in DOMAIN f |->
        IF \E k \in 1..Len(calls) : calls[k].id = i
        THEN (IF f[i] < 2 THEN f[i] + 1 ELSE 2)
        ELSE f[i]]

\* the model explores an operation only while the bounded buffers can hold it
WithinBounds(m, t, event) ==
    /\ event.type = "Input" /\ m.kind = "Query" =>
           Len(m.buffer.text) + Len(event.ch) <= MaxQuery
    /\ event.type = "Input" /\ m.kind # "Query" => Len(t) + Len(event.ch) <= MaxLen

\* whether the script is consulted by this step
RunsScript(m, event) ==
    /\ m.kind = "Query" /\ m.name = "Eval" /\ event.type = "Input"
    /\ event.ch = ChNewline

\* one call of Mode::advance by the caller: the returned mode replaces the
\* current one and a Halt discards the rest of the batch (r is the one value
\* the call returns)
Apply(event, rest, sc) ==
    /\ variant = "advance" /\ variant' = variant
    /\ ~panicked
    /\ steps < MaxSteps
    /\ steps' = steps + 1
    /\ WithinBounds(mode, text, event)
    /\ sc = NoScript \/ RunsScript(mode, event)
    /\ \E r \in {advance(mode, text, cursor, event, sc, nextId)} :
        /\ r.nextId <= MaxConts + 1
        /\ text' = r.text
        /\ cursor' = r.cursor
        /\ mode' = r.mode
        /\ nextId' = r.nextId
        /\ fired' = Fire(fired, r.calls)
        /\ panicked' = r.panic
        /\ queue' = IF r.adv = "Continue" THEN rest ELSE <<>>
        /\ registers' = registers
        /\ last' = [op |-> event, kind |-> mode.kind, adv |-> r.adv, calls |-> r.calls,
                    dropped |-> IF r.adv = "Continue" THEN 0 ELSE Len(rest)]

\* the caller starts a batch
Feed ==
    /\ queue = <<>>
    /\ \E batch \in Batches, sc \in Scripts : Apply(Head(batch), Tail(batch), sc)

\* the caller goes on with the batch
Drain ==
    /\ queue # <<>>
    /\ \E sc \in Scripts : Apply(Head(queue), Tail(queue), sc)

NextAdvance == Feed \/ Drain

SpecAdvance == InitAdvance /\ [][NextAdvance]_vars

----------------------------------------------------------------------------
(* Buf and the row/column Cursor (src/buffer.rs, six/src/cursor.rs)         *)

RECURSIVE SplitFrom(_, _, _)
SplitFrom(t, i, acc) ==
    IF i > Len(t) THEN <<acc>>
    ELSE IF t[i] = 10 THEN <<acc>> \o SplitFrom(t, i + 1, <<>>)
    ELSE SplitFrom(t, i + 1, Append(acc, t[i]))

\* Buf::lines: str::split('\n')
lines(t) == SplitFrom(t, 1, <<>>)

\* BufferView::rows
rows(t) == Len(lines(t))

\* BufferView::cols_at: the byte length of the line; aborts past the last line
cols_at(t, row) == IF row < rows(t) THEN Len(lines(t)[row + 1]) ELSE Panics

\* Cursor::new(col, row)
Cur(col, row) == [row |-> row, col |-> col, offset |-> col]

NoCursor == [row |-> None, col |-> None, offset |-> None]

PanicCursor == [row |-> Panics, col |-> Panics, offset |-> Panics]

\* PartialEq of Cursor: the raw column is ignored
SamePoint(p, q) == p.row = q.row /\ p.col = q.col

RECURSIVE CharsBefore(_, _)
CharsBefore(ls, n) ==
    IF n = 0 \/ ls = <<>> THEN 0
    ELSE 1 + Len(Chars(Head(ls))) + CharsBefore(Tail(ls), n - 1)

\* to_offset: the column plus, for each line before the row, its characters
\* and one
to_offset(t, p) == p.col + CharsBefore(lines(t), p.row)

\* BufferView::get: chars().nth(to_offset)
BufGet(t, p) ==
    LET cs == Chars(t)
        k == to_offset(t, p)
    IN  IF k < Len(cs) THEN cs[k + 1] ELSE NoChar

\* BufferView::len: String::len
BufLen(t) == Len(t)

\* Buf::insert: String::insert at to_offset taken as a byte index
BufInsertOk(t, p) == RangeOk(t, to_offset(t, p), to_offset(t, p))

BufInsert(t, p, ch) == Splice(t, to_offset(t, p), to_offset(t, p), ch)

Included(p) == [bound |-> "Included", at |-> p]
Excluded(p) == [bound |-> "Excluded", at |-> p]

\* to_offset_bound, then the byte index String::replace_range starts at
StartIndex(t, b) ==
    IF b.bound = "Included" THEN to_offset(t, b.at) ELSE to_offset(t, b.at) + 1

\* to_offset_bound, then the byte index String::replace_range stops before
EndIndex(t, b) ==
    IF b.bound = "Included" THEN to_offset(t, b.at) + 1 ELSE to_offset(t, b.at)

\* Buf::edit: String::replace_range((start, end), text)
BufEditOk(t, from, to) == RangeOk(t, StartIndex(t, from), EndIndex(t, to))

BufEdit(t, from, to, ins) == Splice(t, StartIndex(t, from), EndIndex(t, to), ins)

\* Buf::delete
BufDelete(t, from, to) == BufEdit(t, from, to, <<>>)

\* Points<Bounded>::next / next_back
PointsBoundedNext(a, t) ==
    IF cols_at(t, a.row) = Panics THEN PanicCursor
    ELSE IF a.col < cols_at(t, a.row) THEN Cur(a.col + 1, a.row) ELSE NoCursor

PointsBoundedNextBack(a, t) ==
    IF a.col > 0 THEN Cur(a.col - 1, a.row) ELSE NoCursor

\* Points<Char>::next / next_back
PointsCharNext(a, t) ==
    IF cols_at(t, a.row) = Panics THEN PanicCursor
    ELSE IF a.col = cols_at(t, a.row)
         THEN (IF a.row + 1 < rows(t) THEN Cur(0, a.row + 1) ELSE NoCursor)
         ELSE Cur(a.col + 1, a.row)

PointsCharNextBack(a, t) ==
    IF a.col = 0
    THEN (IF a.row > 0 THEN Cur(0, a.row - 1) ELSE NoCursor)
    ELSE Cur(a.col - 1, a.row)

\* Points<Line>::next / next_back
PointsLineNext(a, t) ==
    IF a.row + 1 < rows(t)
    THEN [row |-> a.row + 1, col |-> Min(a.offset, cols_at(t, a.row + 1)),
          offset |-> a.offset]
    ELSE NoCursor

PointsLineNextBack(a, t) ==
    IF a.row > 0
    THEN (IF cols_at(t, a.row - 1) = Panics THEN PanicCursor
          ELSE [row |-> a.row - 1, col |-> Min(a.offset, cols_at(t, a.row - 1)),
                offset |-> a.offset])
    ELSE NoCursor

\* Points::has_whitespace / has_character, None as NoChar
has_whitespace(t, p) == BufGet(t, p) # NoChar /\ is_whitespace(BufGet(t, p))
has_character(t, p) == BufGet(t, p) # NoChar /\ ~is_whitespace(BufGet(t, p))

\* Points<Word>::next: over the Char positions after the anchor,
\* skip_while(has_character), then find(has_character or no character)
RECURSIVE WordFind(_, _)
WordFind(p, t) ==
    IF p.row < 0 THEN p
    ELSE IF ~has_whitespace(t, p) THEN p
    ELSE WordFind(PointsCharNext(p, t), t)

RECURSIVE WordSkip(_, _)
WordSkip(p, t) ==
    IF p.row < 0 THEN p
    ELSE IF has_character(t, p) THEN WordSkip(PointsCharNext(p, t), t)
    ELSE WordFind(p, t)

PointsWordNext(a, t) == WordSkip(PointsCharNext(a, t), t)

\* the test of Points<Word>::next_back on a position: "hit", "miss" or
\* "panic" (an expect on a position holding no character)
WordBackTest(current, t) ==
    LET previous == PointsCharNextBack(current, t)
    IN  IF previous.row < 0 THEN "hit"
        ELSE IF BufGet(t, previous) = NoChar THEN "panic"
        ELSE IF ~has_whitespace(t, previous) THEN "miss"
        ELSE IF BufGet(t, current) = NoChar THEN "panic"
        ELSE IF has_character(t, current) THEN "hit" ELSE "miss"

\* Points<Word>::next_back: find over the Char positions before the anchor
RECURSIVE WordFindBack(_, _)
WordFindBack(current, t) ==
    IF current.row < 0 THEN current
    ELSE IF WordBackTest(current, t) = "panic" THEN PanicCursor
    ELSE IF WordBackTest(current, t) = "hit" THEN current
    ELSE WordFindBack(PointsCharNextBack(current, t), t)

PointsWordNextBack(a, t) == WordFindBack(PointsCharNextBack(a, t), t)

\* Points<EndOfWord>::next: skip_while(has_whitespace), then
\* take_while(has_character or no character), last
RECURSIVE EowTake(_, _, _)
EowTake(p, t, acc) ==
    IF p.row = Panics THEN p
    ELSE IF p.row < 0 THEN acc
    ELSE IF ~has_whitespace(t, p) THEN EowTake(PointsCharNext(p, t), t, p)
    ELSE acc

RECURSIVE EowSkip(_, _)
EowSkip(p, t) ==
    IF p.row < 0 THEN p
    ELSE IF has_whitespace(t, p) THEN EowSkip(PointsCharNext(p, t), t)
    ELSE EowTake(p, t, NoCursor)

PointsEndOfWordNext(a, t) == EowSkip(PointsCharNext(a, t), t)

\* Points<EndOfWord>::next_back: over the Char positions before the anchor,
\* skip_while(has_whitespace), take_while(..), next
RECURSIVE EowSkipBack(_, _)
EowSkipBack(p, t) ==
    IF p.row < 0 THEN p
    ELSE IF has_whitespace(t, p) THEN EowSkipBack(PointsCharNextBack(p, t), t)
    ELSE p

PointsEndOfWordNextBack(a, t) == EowSkipBack(PointsCharNextBack(a, t), t)

\* iter().last(): the last position the unit yields, NoCursor when it yields
\* none
RECURSIVE BoundedLast(_, _, _)
BoundedLast(a, t, acc) ==
    LET n == PointsBoundedNext(a, t)
    IN  IF n.row = Panics THEN n
        ELSE IF n.row < 0 THEN acc
        ELSE BoundedLast(n, t, n)

\* iter().rev().last()
RECURSIVE BoundedFirst(_, _, _)
BoundedFirst(a, t, acc) ==
    LET n == PointsBoundedNextBack(a, t)
    IN  IF n.row < 0 THEN acc ELSE BoundedFirst(n, t, n)

\* Option::unwrap_or on a position
UnwrapOr(p, default) == IF p.row = None THEN default ELSE p

----------------------------------------------------------------------------
(* handle_key (six/src/state.rs): the Editor over Buf and the row/column    *)
(* Cursor                                                                   *)

MaxInitRC == 3
MaxLenRC == 4
MaxKeys == 4

Edit == [kind |-> "Edit"]

\* Editor::operator and Editor::query; the callback is the closure `name`
\* over `cap`
EditorOperator(name, id, cap) ==
    [kind |-> "Operator", name |-> name, id |-> id, cap |-> cap]

EditorQuery(name, id, length, cap) ==
    [kind |-> "Query", name |-> name, id |-> id, length |-> length,
     content |-> <<>>, cursor |-> Cur(0, 0), cap |-> cap]

Ed(m, t, c, calls, nid) ==
    [mode |-> m, text |-> t, cursor |-> c, calls |-> calls, panic |-> FALSE,
     nextId |-> nid]

EdPanic(m, t, c, calls, nid) ==
    [mode |-> m, text |-> t, cursor |-> c, calls |-> calls, panic |-> TRUE,
     nextId |-> nid]

\* Editor::forward::<M>(1) and Editor::backward::<M>(1): take(1).last()
\* .unwrap_or(cursor), given the position the unit yields
EditorMove(next, c) == UnwrapOr(next, c)

\* the outer `surround` closure of Action::ToSurround, called by
\* after_operator
EditorSurroundRange(m, t, c, start, end, nid) ==
    LET back == PointsEndOfWordNextBack(end, t)
        fwd == IF back.row < 0 THEN back ELSE PointsCharNext(back, t)
        trimmed == UnwrapOr(fwd, end)
        call == <<[id |-> m.id, kind |-> "Operator", name |-> m.name, start |-> start,
                   end |-> end, str |-> <<>>]>>
    IN  IF trimmed.row = Panics THEN EdPanic(m, t, c, call, nid)
        ELSE Ed(EditorQuery("Surround with", nid, 2, [start |-> start, end |-> trimmed]),
                t, c, call, nid + 1)

\* the inner `surround` closure, called by after_query
EditorSurroundStr(m, t, c, sandwich, nid) ==
    LET chars == Chars(sandwich)
        call == <<[id |-> m.id, kind |-> "Query", name |-> m.name, start |-> NoCursor,
                   end |-> NoCursor, str |-> sandwich]>>
    IN  IF Len(chars) < 2 THEN EdPanic(m, t, c, call, nid)
        ELSE IF ~BufInsertOk(t, m.cap.end) THEN EdPanic(m, t, c, call, nid)
        ELSE LET t1 == BufInsert(t, m.cap.end, chars[2])
             IN  IF ~BufInsertOk(t1, m.cap.start) THEN EdPanic(m, t1, c, call, nid)
                 ELSE Ed(Normal, BufInsert(t1, m.cap.start, chars[1]), m.cap.start, call,
                         nid)

\* the closure of Action::ToEval, called by after_query
EditorEval(m, t, c, command, nid) ==
    Ed(Normal, t, c,
       <<[id |-> m.id, kind |-> "Query", name |-> m.name, start |-> NoCursor,
          end |-> NoCursor, str |-> command]>>, nid)

\* Editor::after_query
after_query(m, t, c, str, nid) ==
    IF m.name = "Eval" THEN EditorEval(m, t, c, str, nid)
    ELSE EditorSurroundStr(m, t, c, str, nid)

\* Editor::after_operator: aborts unless the mode is Operator
after_operator(m, t, c, p, q, nid) ==
    IF m.kind # "Operator" THEN EdPanic(m, t, c, <<>>, nid)
    ELSE EditorSurroundRange(m, t, c, p, q, nid)

\* Action::Input(ch)
EditorInput(m, t, c, ch, nid) ==
    IF m.kind = "Query"
    THEN IF ~BufInsertOk(m.content, m.cursor) THEN EdPanic(m, t, c, <<>>, nid)
         ELSE LET content == BufInsert(m.content, m.cursor, ch)
                  next == PointsCharNext(m.cursor, content)
              IN  IF ch = ChNewline \/ (m.length # None /\ m.length = BufLen(content))
                  THEN after_query(m, t, c, content, nid)
                  ELSE IF next.row < 0 THEN EdPanic(m, t, c, <<>>, nid)
                  ELSE Ed([m EXCEPT !.content = content, !.cursor = next], t, c, <<>>, nid)
    ELSE IF ~BufInsertOk(t, c) THEN EdPanic(m, t, c, <<>>, nid)
    ELSE LET t1 == BufInsert(t, c, ch)
             next == PointsCharNext(c, t1)
         IN  IF next.row = Panics THEN EdPanic(m, t1, c, <<>>, nid)
             ELSE Ed(m, t1, EditorMove(next, c), <<>>, nid)

\* Action::TextObject(..): move, then hand (p, q) to a pending Operator
EditorTextObject(m, t, c, moved, backward, nid) ==
    IF moved.row = Panics THEN EdPanic(m, t, c, <<>>, nid)
    ELSE LET c1 == EditorMove(moved, c)
         IN  IF m.kind = "Operator"
             THEN (IF backward THEN after_operator(m, t, c1, c1, c, nid)
                   ELSE after_operator(m, t, c1, c, c1, nid))
             ELSE Ed(m, t, c1, <<>>, nid)

Action(type, flag, ch) == [type |-> type, flag |-> flag, ch |-> ch]

Actions ==
    {Action(ty, f, NoChar) : ty \in {"Escape", "ToInsert"}, f \in BOOLEAN}
    \cup {Action(ty, FALSE, NoChar) :
             ty \in {"ToEval", "ToSurround", "Bol", "Word", "Eow", "ToDelete", "ToSelect"}}
    \cup {Action("Input", FALSE, ch) : ch \in InputChars \cup {ChSpace}}

\* handle_key(state, lua, action)
handle_key(m, t, c, action, nid) ==
    LET ty == action.type
    IN  IF ty = "Escape"
        THEN LET back == IF action.flag THEN PointsBoundedNextBack(c, t) ELSE NoCursor
             IN  Ed(Normal, t, EditorMove(back, c), <<>>, nid)
        ELSE IF ty = "ToInsert"
        THEN LET fwd == IF action.flag THEN PointsBoundedNext(c, t) ELSE NoCursor
             IN  IF fwd.row = Panics THEN EdPanic(Edit, t, c, <<>>, nid)
                 ELSE Ed(Edit, t, EditorMove(fwd, c), <<>>, nid)
        ELSE IF ty = "ToEval"
        THEN Ed(EditorQuery("Eval", nid, None, [none |-> TRUE]), t, c, <<>>, nid + 1)
        ELSE IF ty = "ToSurround"
        THEN Ed(EditorOperator("Surround", nid, [none |-> TRUE]), t, c, <<>>, nid + 1)
        ELSE IF ty = "Input" THEN EditorInput(m, t, c, action.ch, nid)
        ELSE IF ty = "Bol"
        THEN EditorTextObject(m, t, c, BoundedFirst(c, t, NoCursor), TRUE, nid)
        ELSE IF ty = "Word"
        THEN EditorTextObject(m, t, c, PointsWordNext(c, t), FALSE, nid)
        ELSE IF ty = "Eow"
        THEN EditorTextObject(m, t, c, PointsEndOfWordNext(c, t), FALSE, nid)
        ELSE EdPanic(m, t, c, <<>>, nid)

\* the positions of a buffer: a row of the text and a column within it
Positions(t) == {Cur(col, row) : col \in 0..Len(t), row \in 0..(rows(t) - 1)}

ValidPositions(t) == {p \in Positions(t) : p.col <= cols_at(t, p.row)}

InitHandleKey ==
    /\ variant = "handle_key"
    /\ text \in Strings(MaxInitRC)
    /\ cursor \in ValidPositions(text)
    /\ mode = Normal
    /\ registers = NoRegisters
    /\ queue = <<>>
    /\ nextId = 1
    /\ fired = [i \in 1..MaxConts |-> 0]
    /\ panicked = FALSE
    /\ steps = 0
    /\ last = NoLast

\* one call of handle_key by the front end
HandleKey ==
    /\ variant = "handle_key" /\ variant' = variant
    /\ ~panicked
    /\ steps < MaxKeys
    /\ steps' = steps + 1
    /\ \E action \in Actions :
        /\ action.type = "Input" /\ mode.kind = "Query" =>
               Len(mode.content) + Len(action.ch) <= MaxQuery
        /\ action.type = "Input" /\ mode.kind # "Query" =>
               Len(text) + Len(action.ch) <= MaxLenRC
        /\ \E r \in {handle_key(mode, text, cursor, action, nextId)} :
            /\ r.nextId <= MaxConts + 1
            /\ text' = r.text
            /\ cursor' = r.cursor
            /\ mode' = r.mode
            /\ nextId' = r.nextId
            /\ fired' = Fire(fired, r.calls)
            /\ panicked' = r.panic
            /\ queue' = <<>>
            /\ registers' = registers
            /\ last' = [op |-> action, kind |-> mode.kind,
                        adv |-> IF r.panic THEN "Panic" ELSE "Ok", calls |-> r.calls,
                        dropped |-> 0]

NextHandleKey == HandleKey

SpecHandleKey == InitHandleKey /\ [][NextHandleKey]_vars

----------------------------------------------------------------------------
(* event_loop (src/state.rs): State over Buf and the row/column Cursor; its *)
(* units are those of six/src/cursor.rs, with Char named Unbounded          *)

MaxRepeat == 20

ChV == <<118>>
ChI == <<105>>
ChBigI == <<73>>
ChBigA == <<65>>
ChO == <<111>>
ChBigO == <<79>>
ChS == <<115>>
ChD == <<100>>
ChSemicolon == <<59>>
ChBigW == <<87>>
ChBigB == <<66>>
ChH == <<104>>
ChJ == <<106>>
ChK == <<107>>
ChL == <<108>>
Ch0 == <<48>>
Ch2 == <<50>>

\* Mode::normal, Mode::operator, Mode::query and the other modes of State
NormalRepeat(repeat) == [kind |-> "Normal", repeat |-> repeat]

SelectRepeat(anchor, repeat) == [kind |-> "Select", anchor |-> anchor, repeat |-> repeat]

ModeOperator(name, repeat, id) ==
    [kind |-> "Operator", name |-> name, repeat |-> repeat, id |-> id]

ModeQuery(name, length, id, cap) ==
    [kind |-> "Query", name |-> name, length |-> length, id |-> id,
     partial |-> [buffer |-> <<>>, cursor |-> Cur(0, 0)], cap |-> cap]

\* Mode::with_count on Normal, Select and Operator
with_count(m, next) == [m EXCEPT !.repeat = next]

Ev(m, t, c, calls, nid) ==
    [mode |-> m, text |-> t, cursor |-> c, calls |-> calls, panic |-> FALSE,
     nextId |-> nid]

EvPanic(m, t, c, calls, nid) ==
    [mode |-> m, text |-> t, cursor |-> c, calls |-> calls, panic |-> TRUE,
     nextId |-> nid]

\* one step of a unit of CursorIterator
UnitNext(unit, a, t) ==
    CASE unit = "Bounded" -> PointsBoundedNext(a, t)
      [] unit = "BoundedBack" -> PointsBoundedNextBack(a, t)
      [] unit = "Unbounded" -> PointsCharNext(a, t)
      [] unit = "UnboundedBack" -> PointsCharNextBack(a, t)
      [] unit = "Line" -> PointsLineNext(a, t)
      [] unit = "LineBack" -> PointsLineNextBack(a, t)
      [] unit = "Word" -> PointsWordNext(a, t)
      [] unit = "WordBack" -> PointsWordNextBack(a, t)

\* iter().take(n).last(): NoCursor when nothing is yielded
RECURSIVE TakeLast(_, _, _, _, _)
TakeLast(unit, a, t, n, acc) ==
    IF n = 0 THEN acc
    ELSE LET p == UnitNext(unit, a, t)
         IN  IF p.row = Panics THEN p
             ELSE IF p.row < 0 THEN acc
             ELSE TakeLast(unit, p, t, n - 1, p)

\* repeat.unwrap_or(1)
Times(repeat) == IF repeat = None THEN 1 ELSE repeat

\* EditView::try_with_cursor with one step of a unit
TryStep(unit, c, t) == UnwrapOr(UnitNext(unit, c, t), c)

RangeCallRC(m, start, end) ==
    [id |-> m.id, kind |-> "Operator", name |-> m.name, start |-> start, end |-> end,
     str |-> <<>>]

StrCallRC(m, str) ==
    [id |-> m.id, kind |-> "Query", name |-> m.name, start |-> NoCursor,
     end |-> NoCursor, str |-> str]

\* the callback of (Normal, Char('d'))
DeleteCallback(m, t, c, start, end, nid) ==
    IF ~BufEditOk(t, Included(start), Included(end))
    THEN EvPanic(m, t, start, <<RangeCallRC(m, start, end)>>, nid)
    ELSE Ev(NormalRepeat(None), BufDelete(t, Included(start), Included(end)), start,
            <<RangeCallRC(m, start, end)>>, nid)

\* rev().find(|p| no whitespace at p) of the outer `surround` callback
RECURSIVE FindBackNonWhitespace(_, _)
FindBackNonWhitespace(a, t) ==
    LET p == PointsCharNextBack(a, t)
    IN  IF p.row < 0 THEN p
        ELSE IF ~has_whitespace(t, p) THEN p
        ELSE FindBackNonWhitespace(p, t)

\* the outer `surround` callback of (Normal, Char('s')); the inner one
\* captures start and the trimmed end (`given` records the end handed over)
SurroundCallback(m, t, c, start, end, nid) ==
    LET trimmed == UnwrapOr(FindBackNonWhitespace(end, t), end)
    IN  Ev(ModeQuery("Surround with", 2, nid,
                     [start |-> start, end |-> trimmed, given |-> end]), t, c,
           <<RangeCallRC(m, start, end)>>, nid + 1)

\* callback(state, lua, (start, end)) of an Operator mode
OperatorCallback(m, t, c, start, end, nid) ==
    IF m.name = "Delete" THEN DeleteCallback(m, t, c, start, end, nid)
    ELSE SurroundCallback(m, t, c, start, end, nid)

\* the inner `surround` callback
SurroundWithCallback(m, t, c, sandwich, nid) ==
    LET chars == Chars(sandwich)
        call == <<StrCallRC(m, sandwich)>>
    IN  IF Len(chars) < 2 THEN EvPanic(m, t, c, call, nid)
        ELSE IF ~BufInsertOk(t, m.cap.end) THEN EvPanic(m, t, c, call, nid)
        ELSE LET t1 == BufInsert(t, m.cap.end, chars[2])
             IN  IF ~BufInsertOk(t1, m.cap.start) THEN EvPanic(m, t1, c, call, nid)
                 ELSE Ev(NormalRepeat(None), BufInsert(t1, m.cap.start, chars[1]),
                         m.cap.start, call, nid)

\* callback(state, lua, partial.buffer().as_str()) of a Query mode; the Eval
\* callback enters Normal before the program runs
QueryCallback(m, t, c, str, nid) ==
    IF m.name = "Eval" THEN Ev(NormalRepeat(None), t, c, <<StrCallRC(m, str)>>, nid)
    ELSE SurroundWithCallback(m, t, c, str, nid)

Key(type, ch) == [type |-> type, ch |-> ch]

CharKey(ch) == Key("Char", ch)

IsChar(key, ch) == key.type = "Char" /\ key.ch = ch

IsDigit(key) == key.type = "Char" /\ key.ch \in {Ch0, Ch2}

Digit(ch) == IF ch = Ch0 THEN 0 ELSE 2

\* delete(cursor..=cursor) when the buffer holds a character at the cursor
DeleteAt(t, c) ==
    IF BufGet(t, c) = NoChar THEN [ok |-> TRUE, text |-> t]
    ELSE IF ~BufEditOk(t, Included(c), Included(c)) THEN [ok |-> FALSE, text |-> t]
    ELSE [ok |-> TRUE, text |-> BufDelete(t, Included(c), Included(c))]

\* a cursor motion of Normal or Select: with_count(None), then
\* try_with_cursor(iter::<unit>().take(repeat.unwrap_or(1)).last())
CountedMove(m, t, c, unit, nid) ==
    LET p == TakeLast(unit, c, t, Times(m.repeat), NoCursor)
    IN  IF p.row = Panics THEN EvPanic(with_count(m, None), t, c, <<>>, nid)
        ELSE Ev(with_count(m, None), t, UnwrapOr(p, c), <<>>, nid)

\* a cursor motion of Edit: try_with_cursor over one step of the unit
EditMove(m, t, c, unit, nid) ==
    LET p == UnitNext(unit, c, t)
    IN  IF p.row = Panics THEN EvPanic(m, t, c, <<>>, nid)
        ELSE Ev(m, t, UnwrapOr(p, c), <<>>, nid)

\* (Operator, Char('W')) and (Operator, Char('B')): the text object, then
\* the callback
OperatorWord(m, t, c, unit, nid) ==
    LET p == TakeLast(unit, c, t, Times(m.repeat), NoCursor)
    IN  IF p.row < 0 THEN EvPanic(m, t, c, <<>>, nid)
        ELSE IF unit = "Word" THEN OperatorCallback(m, t, c, c, p, nid)
        ELSE OperatorCallback(m, t, c, p, c, nid)

\* (Query, Char(ch))
QueryChar(m, t, c, ch, nid) ==
    IF ~BufInsertOk(m.partial.buffer, m.partial.cursor) THEN EvPanic(m, t, c, <<>>, nid)
    ELSE LET buffer == BufInsert(m.partial.buffer, m.partial.cursor, ch)
             next == PointsCharNext(m.partial.cursor, buffer)
         IN  IF next.row = Panics THEN EvPanic(m, t, c, <<>>, nid)
             ELSE IF ch = ChNewline \/ (m.length # None /\ m.length = BufLen(buffer))
             THEN QueryCallback(m, t, c, buffer, nid)
             ELSE Ev([m EXCEPT !.partial = [buffer |-> buffer,
                                           cursor |-> UnwrapOr(next, m.partial.cursor)]],
                     t, c, <<>>, nid)

\* (Query, Backspace)
QueryBackspace(m, t, c, nid) ==
    LET cur == TryStep("UnboundedBack", m.partial.cursor, m.partial.buffer)
        d == DeleteAt(m.partial.buffer, cur)
    IN  IF ~d.ok THEN EvPanic(m, t, c, <<>>, nid)
        ELSE Ev([m EXCEPT !.partial = [buffer |-> d.text, cursor |-> cur]], t, c, <<>>, nid)

\* (Normal, Char('o')) and (Normal, Char('O')): a line break at the end
\* (start) of the line, then one step from there
OpenLine(m, t, c, edge, unit, nid) ==
    LET at == UnwrapOr(edge, c)
    IN  IF edge.row = Panics \/ ~BufInsertOk(t, at) THEN EvPanic(m, t, c, <<>>, nid)
        ELSE LET t1 == BufInsert(t, at, ChNewline)
                 p == UnitNext(unit, at, t1)
             IN  IF p.row = Panics THEN EvPanic(m, t1, c, <<>>, nid)
                 ELSE Ev(Edit, t1, UnwrapOr(p, c), <<>>, nid)

\* (Edit, Ctrl('w'))
EditDeleteWord(m, t, c, nid) ==
    LET p == PointsWordNextBack(c, t)
        c1 == UnwrapOr(p, c)
    IN  IF p.row = Panics THEN EvPanic(m, t, c, <<>>, nid)
        ELSE IF ~BufEditOk(t, Included(c1), Excluded(c)) THEN EvPanic(m, t, c1, <<>>, nid)
        ELSE Ev(m, BufDelete(t, Included(c1), Excluded(c)), c1, <<>>, nid)

\* event_loop(state, lua, event); the arms in the order of the match
event_loop(m, t, c, key, nid) ==
    LET k == m.kind
        plain == k \in {"Normal", "Select"}
    IN  IF k = "Edit" /\ key.type = "Esc"
        THEN Ev(NormalRepeat(None), t, TryStep("BoundedBack", c, t), <<>>, nid)
        ELSE IF key.type = "Esc" THEN Ev(NormalRepeat(None), t, c, <<>>, nid)
        ELSE IF k = "Normal" /\ IsChar(key, ChV)
        THEN Ev(SelectRepeat(c, None), t, c, <<>>, nid)
        ELSE IF k = "Normal" /\ IsChar(key, ChI) THEN Ev(Edit, t, c, <<>>, nid)
        ELSE IF k = "Normal" /\ IsChar(key, ChA) THEN EditMove(Edit, t, c, "Bounded", nid)
        ELSE IF k = "Normal" /\ IsChar(key, ChBigI)
        THEN Ev(Edit, t, UnwrapOr(BoundedFirst(c, t, NoCursor), c), <<>>, nid)
        ELSE IF k = "Normal" /\ IsChar(key, ChBigA)
        THEN (IF BoundedLast(c, t, NoCursor).row = Panics THEN EvPanic(Edit, t, c, <<>>, nid)
              ELSE Ev(Edit, t, UnwrapOr(BoundedLast(c, t, NoCursor), c), <<>>, nid))
        ELSE IF k = "Normal" /\ IsChar(key, ChO)
        THEN OpenLine(m, t, c, BoundedLast(c, t, NoCursor), "Unbounded", nid)
        ELSE IF k = "Normal" /\ IsChar(key, ChBigO)
        THEN OpenLine(m, t, c, BoundedFirst(c, t, NoCursor), "UnboundedBack", nid)
        ELSE IF k = "Normal" /\ IsChar(key, ChS)
        THEN Ev(ModeOperator("Surround", None, nid), t, c, <<>>, nid + 1)
        ELSE IF k = "Normal" /\ IsChar(key, ChD)
        THEN Ev(ModeOperator("Delete", m.repeat, nid), t, c, <<>>, nid + 1)
        ELSE IF k = "Normal" /\ IsChar(key, ChSemicolon)
        THEN Ev(ModeQuery("Eval", None, nid, [none |-> TRUE]), t, c, <<>>, nid + 1)
        ELSE IF k = "Operator" /\ IsChar(key, ChBigW) THEN OperatorWord(m, t, c, "Word", nid)
        ELSE IF k = "Operator" /\ IsChar(key, ChBigB)
        THEN OperatorWord(m, t, c, "WordBack", nid)
        ELSE IF k = "Query" /\ key.type = "Char" THEN QueryChar(m, t, c, key.ch, nid)
        ELSE IF k = "Query" /\ key.type = "Backspace" THEN QueryBackspace(m, t, c, nid)
        ELSE IF k = "Edit" /\ key.type = "Char"
        THEN (IF ~BufInsertOk(t, c) THEN EvPanic(m, t, c, <<>>, nid)
              ELSE EditMove(m, BufInsert(t, c, key.ch), c, "Unbounded", nid))
        ELSE IF k = "Edit" /\ key.type = "Backspace"
        THEN LET cur == TryStep("UnboundedBack", c, t)
                 d == DeleteAt(t, cur)
             IN  IF ~d.ok THEN EvPanic(m, t, cur, <<>>, nid) ELSE Ev(m, d.text, cur, <<>>, nid)
        ELSE IF k = "Edit" /\ key.type = "Delete"
        THEN (IF ~DeleteAt(t, c).ok THEN EvPanic(m, t, c, <<>>, nid)
              ELSE Ev(m, DeleteAt(t, c).text, c, <<>>, nid))
        ELSE IF k = "Edit" /\ key.type = "CtrlW" THEN EditDeleteWord(m, t, c, nid)
        ELSE IF k = "Normal" /\ IsChar(key, ChBigW) THEN CountedMove(m, t, c, "Word", nid)
        ELSE IF k = "Normal" /\ IsChar(key, ChBigB) THEN CountedMove(m, t, c, "WordBack", nid)
        ELSE IF plain /\ (IsChar(key, ChH) \/ key.type = "Left")
        THEN CountedMove(m, t, c, "BoundedBack", nid)
        ELSE IF plain /\ (IsChar(key, ChJ) \/ key.type = "Down")
        THEN CountedMove(m, t, c, "Line", nid)
        ELSE IF plain /\ (IsChar(key, ChK) \/ key.type = "Up")
        THEN CountedMove(m, t, c, "LineBack", nid)
        ELSE IF plain /\ (IsChar(key, ChL) \/ key.type = "Right")
        THEN CountedMove(m, t, c, "Bounded", nid)
        ELSE IF k = "Edit" /\ key.type = "Left" THEN EditMove(m, t, c, "Bounded", nid)
        ELSE IF k = "Edit" /\ key.type = "Up" THEN EditMove(m, t, c, "LineBack", nid)
        ELSE IF k = "Edit" /\ key.type = "Down" THEN EditMove(m, t, c, "Line", nid)
        ELSE IF k = "Edit" /\ key.type = "Right" THEN EditMove(m, t, c, "BoundedBack", nid)
        ELSE IF k \in {"Normal", "Select", "Operator"} /\ IsDigit(key)
        THEN Ev(with_count(m, (IF m.repeat = None THEN 0 ELSE m.repeat) * 10
                              + Digit(key.ch)),
                t, c, <<>>, nid)
        ELSE IF k = "Operator" THEN Ev(NormalRepeat(None), t, c, <<>>, nid)
        ELSE Ev(m, t, c, <<>>, nid)

CommandChars ==
    {ChV, ChI, ChA, ChBigI, ChBigA, ChO, ChBigO, ChS, ChD, ChSemicolon, ChBigW, ChBigB,
     ChH, ChJ, ChK, ChL, Ch0, Ch2, ChSpace}

TypedChars == {ChA, ChSpace, ChNewline, ChEAcute}

SpecialKeys ==
    {Key(ty, NoChar) :
       ty \in {"Esc", "Backspace", "Delete", "CtrlW", "Left", "Right", "Up", "Down"}}

\* the keys explored in a mode: the command keys where characters are
\* commands, the typed characters where they are text
Keys(m) ==
    SpecialKeys
    \cup {CharKey(ch) : ch \in IF m.kind \in {"Edit", "Query"} THEN TypedChars
                                ELSE CommandChars}

InitEventLoop ==
    /\ variant = "event_loop"
    /\ text \in Strings(MaxInitRC)
    /\ cursor \in ValidPositions(text)
    /\ mode = NormalRepeat(None)
    /\ registers = NoRegisters
    /\ queue = <<>>
    /\ nextId = 1
    /\ fired = [i \in 1..MaxConts |-> 0]
    /\ panicked = FALSE
    /\ steps = 0
    /\ last = NoLast

KeyWithinBounds(m, t, key) ==
    /\ key.type = "Char" /\ m.kind = "Query" =>
           Len(m.partial.buffer) + Len(key.ch) <= MaxQuery
    /\ key.type = "Char" /\ m.kind = "Edit" => Len(t) + Len(key.ch) <= MaxLenRC
    /\ IsChar(key, ChO) \/ IsChar(key, ChBigO) => Len(t) + 1 <= MaxLenRC
    /\ IsDigit(key) /\ m.kind \in {"Normal", "Select", "Operator"} =>
           (IF m.repeat = None THEN 0 ELSE m.repeat) * 10 + Digit(key.ch) <= MaxRepeat

\* the repeat count the mode holds when a key arrives
Pending(m) == IF m.kind \in {"Normal", "Select", "Operator"} THEN m.repeat ELSE None

\* one call of event_loop by the front end; `last` records the key, the
\* mode it arrived in and the repeat count pending then
EventLoop ==
    /\ variant = "event_loop" /\ variant' = variant
    /\ ~panicked
    /\ steps < MaxKeys
    /\ steps' = steps + 1
    /\ \E key \in Keys(mode) :
        /\ KeyWithinBounds(mode, text, key)
        /\ \E r \in {event_loop(mode, text, cursor, key, nextId)} :
            /\ r.nextId <= MaxConts + 1
            /\ text' = r.text
            /\ cursor' = r.cursor
            /\ mode' = r.mode
            /\ nextId' = r.nextId
            /\ fired' = Fire(fired, r.calls)
            /\ panicked' = r.panic
            /\ registers' = registers
            /\ queue' = <<>>
            /\ last' = [op |-> key, kind |-> mode.kind,
                        adv |-> IF r.panic THEN "Panic" ELSE "Ok", calls |-> r.calls,
                        dropped |-> 0, repeat |-> Pending(mode)]

NextEventLoop == EventLoop

SpecEventLoop == InitEventLoop /\ [][NextEventLoop]_vars

----------------------------------------------------------------------------
(* SpecCursor: the offset Cursor of six/src/cursor/mod.rs moved over a      *)
(* text, one metric at a time                                               *)

MaxCursorText == 4

Metrics == {"Codepoint", "Bounded", "Line", "Head", "Tail"}

\* Cursor::to_row: the line breaks before the offset
to_row(c, t) == Cardinality({i \in 1..Min(c, Len(t)) : t[i] = 10})

NoMove ==
    [op |-> Op("None"), kind |-> "None", adv |-> "None", calls |-> <<>>, dropped |-> 0,
     from |-> None, ret |-> None]

InitCursor ==
    /\ variant = "cursor"
    /\ text \in Strings(MaxCursorText)
    /\ cursor \in Boundaries(text)
    /\ mode = Normal
    /\ registers = NoRegisters
    /\ queue = <<>>
    /\ nextId = 1
    /\ fired = [i \in 1..MaxConts |-> 0]
    /\ panicked = FALSE
    /\ steps = 0
    /\ last = NoMove

\* the caller keeps the position a motion yields and stays where it is when
\* the motion yields none; `last` records the motion, its anchor and what
\* it returned
Moved(metric, reverse, ret) ==
    /\ variant = "cursor" /\ variant' = variant
    /\ ~panicked
    /\ cursor' = IF ret >= 0 THEN ret ELSE cursor
    /\ panicked' = (ret = Panics)
    /\ last' = [op |-> [type |-> metric, reverse |-> reverse, ch |-> NoChar],
                kind |-> "Cursor",
                adv |-> IF ret >= 0 THEN "Some" ELSE IF ret = None THEN "None" ELSE "Panic",
                calls |-> <<>>, dropped |-> 0, from |-> cursor, ret |-> ret]
    /\ UNCHANGED <<text, mode, registers, queue, nextId, fired, steps>>

\* cursor.forward::<It>(text): It::new(cursor, text).next()
Forward == \E metric \in Metrics : Moved(metric, FALSE, CursorForward(metric, cursor, text))

\* cursor.backward::<It>(text): It::new(cursor, text).next_back()
Backward == \E metric \in Metrics : Moved(metric, TRUE, CursorBackward(metric, cursor, text))

Unbounded == [bound |-> "Unbounded", at |-> None]

BoundKinds == {"Unbounded", "Excluded", "Included"}

BoundOf(kind, c) ==
    IF kind = "Unbounded" THEN Unbounded ELSE [bound |-> kind, at |-> c]

\* to_offset_bound(bound, buffer); `next` is cursor.forward::<Codepoint>
\* and the expect on it panics when there is no next position
to_offset_bound(b, next, t) ==
    CASE b.bound = "Unbounded" -> Unbounded
      [] b.bound = "Excluded" -> Excluded(b.at)
      [] b.bound = "Included" ->
            IF b.at = Len(t) THEN Included(b.at)
            ELSE IF next >= 0 THEN Included(next - 1)
            ELSE Included(Panics)

\* a caller converts a bound at the cursor; `last` records the kind of the
\* bound and its position, and the kind and the offset of the bound it was
\* given
Converted(b, r) ==
    /\ variant = "cursor" /\ variant' = variant
    /\ ~panicked
    /\ panicked' = (r.at = Panics)
    /\ last' = [op |-> [type |-> b.bound, reverse |-> FALSE, ch |-> NoChar],
                kind |-> "Bound", adv |-> IF r.at = Panics THEN "Panic" ELSE r.bound,
                calls |-> <<>>, dropped |-> 0, from |-> b.at, ret |-> r.at]
    /\ UNCHANGED <<text, cursor, mode, registers, queue, nextId, fired, steps>>

ToOffsetBound ==
    \E kind \in BoundKinds :
        Converted(BoundOf(kind, cursor),
                  to_offset_bound(BoundOf(kind, cursor),
                                  CursorForward("Codepoint", cursor, text), text))

NextCursor == Forward \/ Backward \/ ToOffsetBound

SpecCursor == InitCursor /\ [][NextCursor]_vars

----------------------------------------------------------------------------
(* The iterators over the row/column Cursor: the units of Points            *)
(* (six/src/cursor.rs) and Cells and Paragraphs (six/src/cursor/cells.rs,   *)
(* paragraphs.rs). An iterator is made at a position and then asked for     *)
(* next or next_back, one call per step                                     *)

MaxPointsText == 4

\* the test of find in Points<Paragraph>::next and next_back on a position
ParagraphTest(p, t) ==
    /\ PointsCharNextBack(p, t).row >= 0
    /\ BufGet(t, p) # NoChar /\ BufGet(t, p) # ChNewline
    /\ BufGet(t, PointsCharNextBack(p, t)) = ChNewline

\* Points<Paragraph>::next: find over the Char positions after the anchor
RECURSIVE ParagraphFind(_, _)
ParagraphFind(p, t) ==
    IF p.row < 0 THEN p
    ELSE IF ParagraphTest(p, t) THEN p
    ELSE ParagraphFind(PointsCharNext(p, t), t)

PointsParagraphNext(a, t) == ParagraphFind(PointsCharNext(a, t), t)

\* Points<Paragraph>::next_back: find over the Char positions before it
RECURSIVE ParagraphFindBack(_, _)
ParagraphFindBack(p, t) ==
    IF p.row < 0 THEN p
    ELSE IF ParagraphTest(p, t) THEN p
    ELSE ParagraphFindBack(PointsCharNextBack(p, t), t)

PointsParagraphNextBack(a, t) == ParagraphFindBack(PointsCharNextBack(a, t), t)

\* Buffer::line(row) then Row::len: the characters of the row, None when
\* the buffer has no such row
line_len(t, row) == IF row < rows(t) THEN Len(Chars(lines(t)[row + 1])) ELSE None

\* Buffer::get of the buffer of rows: the character of the row at the column
BufferGet(t, p) ==
    IF line_len(t, p.row) = None \/ p.col >= line_len(t, p.row) THEN NoChar
    ELSE Chars(lines(t)[p.row + 1])[p.col + 1]

\* Cells::next
CellsNext(a, t) ==
    IF line_len(t, a.row) = None THEN NoCursor
    ELSE IF a.col < line_len(t, a.row) THEN Cur(a.col + 1, a.row)
    ELSE Cur(0, a.row + 1)

\* Cells::next_back
CellsNextBack(a, t) ==
    IF a.col # 0 THEN Cur(a.col - 1, a.row)
    ELSE IF a.row = 0 \/ line_len(t, a.row - 1) = None THEN NoCursor
    ELSE Cur(line_len(t, a.row - 1), a.row - 1)

\* Cells, or Cells reversed
CellsStep(a, t, reverse) == IF reverse THEN CellsNextBack(a, t) ELSE CellsNext(a, t)

\* a peeked cell read with Buffer::get is a line break, or there is none
PeekedLineBreak(q, t) ==
    q.row < 0 \/ BufferGet(t, q) = NoChar \/ BufferGet(t, q) = ChNewline

\* the test of find in paragraphs.rs on a cell p and the two cells q and r
\* peeked after it
ParagraphsTest(p, q, r, t) ==
    /\ BufferGet(t, p) # NoChar /\ BufferGet(t, p) # ChNewline
    /\ PeekedLineBreak(q, t)
    /\ PeekedLineBreak(r, t)

\* find of paragraphs.rs over the cells from p on; q is the cell after p
RECURSIVE ParagraphsFind(_, _, _)
ParagraphsLook(p, q, t, reverse) ==
    IF ParagraphsTest(p, q, IF q.row < 0 THEN q ELSE CellsStep(q, t, reverse), t) THEN p
    ELSE ParagraphsFind(q, t, reverse)

ParagraphsFind(p, t, reverse) ==
    IF p.row < 0 THEN NoCursor ELSE ParagraphsLook(p, CellsStep(p, t, reverse), t, reverse)

\* Paragraphs::next and next_back
ParagraphsNext(a, t) == ParagraphsFind(CellsNext(a, t), t, FALSE)

ParagraphsNextBack(a, t) == ParagraphsFind(CellsNextBack(a, t), t, TRUE)

\* Iter<char>::next of cursor/char.rs
IterCharNext(a, t) ==
    IF cols_at(t, a.row) = Panics THEN PanicCursor
    ELSE IF a.col = cols_at(t, a.row)
    THEN (IF a.row + 1 < rows(t) THEN Cur(0, a.row + 1) ELSE NoCursor)
    ELSE Cur(a.col + 1, a.row)

\* Iter<char>::next_back of cursor/char.rs
IterCharNextBack(a, t) ==
    IF a.col = 0
    THEN (IF a.row > 0 THEN Cur(cols_at(t, a.row - 1), a.row - 1) ELSE NoCursor)
    ELSE Cur(a.col - 1, a.row)

Units ==
    {"Bounded", "Char", "Line", "Word", "EndOfWord", "Paragraph", "Cells", "Paragraphs",
     "IterChar"}

\* Iterator::next of the iterator of a unit anchored at a
IterNext(unit, a, t) ==
    CASE unit = "Bounded" -> PointsBoundedNext(a, t)
      [] unit = "Char" -> PointsCharNext(a, t)
      [] unit = "Line" -> PointsLineNext(a, t)
      [] unit = "Word" -> PointsWordNext(a, t)
      [] unit = "EndOfWord" -> PointsEndOfWordNext(a, t)
      [] unit = "Paragraph" -> PointsParagraphNext(a, t)
      [] unit = "Cells" -> CellsNext(a, t)
      [] unit = "Paragraphs" -> ParagraphsNext(a, t)
      [] unit = "IterChar" -> IterCharNext(a, t)

\* DoubleEndedIterator::next_back
IterNextBack(unit, a, t) ==
    CASE unit = "Bounded" -> PointsBoundedNextBack(a, t)
      [] unit = "Char" -> PointsCharNextBack(a, t)
      [] unit = "Line" -> PointsLineNextBack(a, t)
      [] unit = "Word" -> PointsWordNextBack(a, t)
      [] unit = "EndOfWord" -> PointsEndOfWordNextBack(a, t)
      [] unit = "Paragraph" -> PointsParagraphNextBack(a, t)
      [] unit = "Cells" -> CellsNextBack(a, t)
      [] unit = "Paragraphs" -> ParagraphsNextBack(a, t)
      [] unit = "IterChar" -> IterCharNextBack(a, t)

\* cursor.iter::<_, Unit>(buffer), buffer.cells(cursor), buffer.paragraphs(cursor)
Iter(unit) == [kind |-> "Iter", unit |-> unit]

NoStep ==
    [op |-> Op("None"), kind |-> "None", adv |-> "None", calls |-> <<>>, dropped |-> 0,
     from |-> NoCursor, ret |-> NoCursor]

InitPoints ==
    /\ variant = "points"
    /\ text \in Strings(MaxPointsText)
    /\ cursor \in ValidPositions(text)
    /\ mode \in {Iter(unit) : unit \in Units}
    /\ registers = NoRegisters
    /\ queue = <<>>
    /\ nextId = 1
    /\ fired = [i \in 1..MaxConts |-> 0]
    /\ panicked = FALSE
    /\ steps = 0
    /\ last = NoStep

\* one call on the iterator: a yielded position becomes its anchor, except
\* in Paragraphs, which never stores it; `last` records the call, the
\* anchor it started from and what it returned
Stepped(reverse, ret) ==
    /\ variant = "points" /\ variant' = variant
    /\ ~panicked
    /\ cursor' = IF ret.row >= 0 /\ mode.unit # "Paragraphs" THEN ret ELSE cursor
    /\ panicked' = (ret.row = Panics)
    /\ last' = [op |-> [type |-> mode.unit, reverse |-> reverse, ch |-> NoChar],
                kind |-> "Iter",
                adv |-> IF ret.row >= 0 THEN "Some"
                        ELSE IF ret.row = None THEN "None" ELSE "Panic",
                calls |-> <<>>, dropped |-> 0, from |-> cursor, ret |-> ret]
    /\ UNCHANGED <<text, mode, registers, queue, nextId, fired, steps>>

IteratorNext == Stepped(FALSE, IterNext(mode.unit, cursor, text))

IteratorNextBack == Stepped(TRUE, IterNextBack(mode.unit, cursor, text))

NextPoints == IteratorNext \/ IteratorNextBack

SpecPoints == InitPoints /\ [][NextPoints]_vars

----------------------------------------------------------------------------
(* Buf (src/buffer.rs) on its own: one call of edit, delete or insert per   *)
(* step, on positions of the buffer                                         *)

MaxBufInit == 3
MaxBufLen == 4
MaxBufCalls == 2

\* the bytes String::replace_range takes out for the range from..to
Removed(t, from, to) ==
    SubSeq(t, StartIndex(t, Included(from)) + 1, EndIndex(t, Excluded(to)))

NoCall ==
    [op |-> Op("None"), kind |-> "None", adv |-> "None", calls |-> <<>>, dropped |-> 0,
     from |-> NoCursor, to |-> NoCursor, ins |-> <<>>, removed |-> <<>>, before |-> <<>>]

InitBuf ==
    /\ variant = "buf"
    /\ text \in Strings(MaxBufInit)
    /\ cursor = Cur(0, 0)
    /\ mode = Normal
    /\ registers = NoRegisters
    /\ queue = <<>>
    /\ nextId = 1
    /\ fired = [i \in 1..MaxConts |-> 0]
    /\ panicked = FALSE
    /\ steps = 0
    /\ last = NoCall

\* a call on the Buf: String::replace_range and String::insert abort on an
\* index that is out of range or off a character boundary, and change the
\* text otherwise; `last` records the call and the text it was made on
Called(name, from, to, ins, ok, after) ==
    /\ variant = "buf" /\ variant' = variant
    /\ ~panicked
    /\ steps < MaxBufCalls
    /\ steps' = steps + 1
    /\ ok => Len(after) <= MaxBufLen
    /\ text' = IF ok THEN after ELSE text
    /\ panicked' = ~ok
    /\ last' = [op |-> Op(name), kind |-> "Buf", adv |-> IF ok THEN "Ok" ELSE "Panic",
                calls |-> <<>>, dropped |-> 0, from |-> from, to |-> to, ins |-> ins,
                removed |-> IF ok /\ name # "insert" THEN Removed(text, from, to) ELSE <<>>,
                before |-> text]
    /\ UNCHANGED <<cursor, mode, registers, queue, nextId, fired>>

\* buf.edit(from..to, ins): the text is a character or what the last call
\* took out
EditCall ==
    \E from \in ValidPositions(text), to \in ValidPositions(text) :
        \E ins \in {ChA, last.removed} :
            Called("edit", from, to, ins, BufEditOk(text, Included(from), Excluded(to)),
                   BufEdit(text, Included(from), Excluded(to), ins))

\* buf.delete(from..to)
DeleteCall ==
    \E from \in ValidPositions(text), to \in ValidPositions(text) :
        Called("delete", from, to, <<>>, BufEditOk(text, Included(from), Excluded(to)),
               BufDelete(text, Included(from), Excluded(to)))

\* buf.insert(point, ch)
InsertCall ==
    \E point \in ValidPositions(text), ch \in TextChars :
        Called("insert", point, point, ch, BufInsertOk(text, point),
               BufInsert(text, point, ch))

NextBuf == EditCall \/ DeleteCall \/ InsertCall

SpecBuf == InitBuf /\ [][NextBuf]_vars

----------------------------------------------------------------------------
----------------------------------------------------------------------------
(* The counted row/column Cursor (src/cursor.rs) and the event_loop of      *)
(* main.rs, whose State keeps the repeat count in a register                *)

MaxMainInit == 3
MaxMainLen == 4
MaxMainKeys == 4

\* Result<Cursor, Partial>: Ok(at) has nothing remaining
OkAt(c) == [at |-> c, remaining |-> 0]

Partial(c, n) == [at |-> c, remaining |-> n]

\* the call aborted (usize underflow with overflow checks on)
Aborted == [at |-> PanicCursor, remaining |-> 0]

IsOk(r) == r.remaining = 0 /\ r.at.row # Panics

IsAborted(r) == r.at.row = Panics

\* Cursor::at_eol, Cursor::at_bol: the raw column `offset` is left alone
at_eol(c, t) == [c EXCEPT !.col = cols_at(t, c.row)]

at_bol(c, t) == [c EXCEPT !.col = 0]

\* Cursor::try_at_right
try_at_right(c, count, t) ==
    IF cols_at(t, c.row) < c.col THEN Aborted
    ELSE IF count <= cols_at(t, c.row) - c.col
    THEN OkAt([c EXCEPT !.col = c.col + count, !.offset = c.col + count])
    ELSE Partial([c EXCEPT !.col = cols_at(t, c.row), !.offset = cols_at(t, c.row)],
                 count - (cols_at(t, c.row) - c.col))

\* Cursor::try_at_left
try_at_left(c, count, t) ==
    IF count <= c.col
    THEN OkAt([c EXCEPT !.col = c.col - count, !.offset = c.col - count])
    ELSE Partial([c EXCEPT !.col = 0, !.offset = 0], count - c.col)

\* Cursor::try_below
try_below(c, count, t) ==
    IF rows(t) - 1 < c.row THEN Aborted
    ELSE IF count <= rows(t) - 1 - c.row
    THEN OkAt([c EXCEPT !.row = c.row + count,
                        !.col = Min(c.offset, cols_at(t, c.row + count))])
    ELSE Partial([c EXCEPT !.row = rows(t) - 1,
                           !.col = Min(c.offset, cols_at(t, rows(t) - 1))],
                 count - (rows(t) - 1 - c.row))

\* Cursor::try_above
try_above(c, count, t) ==
    IF count <= c.row
    THEN (IF cols_at(t, c.row - count) = Panics THEN Aborted
          ELSE OkAt([c EXCEPT !.row = c.row - count,
                              !.col = Min(c.offset, cols_at(t, c.row - count))]))
    ELSE Partial([c EXCEPT !.row = 0, !.col = Min(c.offset, cols_at(t, 0))],
                 count - c.row)

\* unwrap_or_else(|partial| partial.at)
AtOf(r) == r.at

RECURSIVE try_forward(_, _, _)
RECURSIVE ForwardBelow(_, _, _)
\* a crossing of the line break that uses up none of the count
ForwardBelowUncounted(r, b, t) ==
    IF IsAborted(b) THEN b
    ELSE IF ~IsOk(b) THEN r
    ELSE try_forward(at_bol(b.at, t), r.remaining, t)

\* the or_else of try_forward: one line down, to its start, and on
ForwardBelow(r, b, t) ==
    IF IsAborted(b) THEN b
    ELSE IF ~IsOk(b) THEN r
    ELSE try_forward(at_bol(b.at, t), r.remaining - 1, t)

ForwardFrom(r, t) ==
    IF IsOk(r) \/ IsAborted(r) THEN r ELSE ForwardBelow(r, try_below(r.at, 1, t), t)

\* Cursor::try_forward
try_forward(c, count, t) ==
    IF count = 0 THEN OkAt(c) ELSE ForwardFrom(try_at_right(c, count, t), t)

RECURSIVE try_backward(_, _, _)
RECURSIVE BackwardAbove(_, _, _)
\* the or_else of try_backward: one line up, to its end, and on
BackwardAbove(r, b, t) ==
    IF IsAborted(b) THEN b
    ELSE IF ~IsOk(b) THEN r
    ELSE try_backward(at_eol(b.at, t), r.remaining - 1, t)

BackwardFrom(r, t) ==
    IF IsOk(r) \/ IsAborted(r) THEN r ELSE BackwardAbove(r, try_above(r.at, 1, t), t)

\* Cursor::try_backward
try_backward(c, count, t) ==
    IF count = 0 THEN OkAt(c) ELSE BackwardFrom(try_at_left(c, count, t), t)

RECURSIVE try_forward_while(_, _, _)
\* the `?` after try_forward(1) in try_forward_while
ForwardWhileFrom(r, t, ws) == IF IsOk(r) THEN try_forward_while(r.at, t, ws) ELSE r

\* Cursor::try_forward_while with the predicate "the character at p is
\* whitespace" (ws) or "is not whitespace" (~ws)
try_forward_while(c, t, ws) ==
    IF BufGet(t, c) = NoChar THEN Partial(c, 1)
    ELSE IF is_whitespace(BufGet(t, c)) = ws THEN ForwardWhileFrom(try_forward(c, 1, t), t, ws)
    ELSE OkAt(c)

RECURSIVE try_backward_while(_, _, _)
BackwardWhileFrom(r, t, ws) == IF IsOk(r) THEN try_backward_while(r.at, t, ws) ELSE r

\* Cursor::try_backward_while
try_backward_while(c, t, ws) ==
    IF BufGet(t, c) = NoChar THEN Partial(c, 1)
    ELSE IF is_whitespace(BufGet(t, c)) = ws
    THEN BackwardWhileFrom(try_backward(c, 1, t), t, ws)
    ELSE OkAt(c)

\* one round of the try_fold of try_forward_words
ForwardWord(c, t) == ForwardWhileFrom(try_forward_while(c, t, FALSE), t, TRUE)

RECURSIVE try_forward_words(_, _, _)
ForwardWordsFrom(r, n, t) == IF IsOk(r) THEN try_forward_words(r.at, n, t) ELSE r

\* Cursor::try_forward_words
try_forward_words(c, count, t) ==
    IF count = 0 THEN OkAt(c) ELSE ForwardWordsFrom(ForwardWord(c, t), count - 1, t)

ThenForward(r, t) == IF IsOk(r) THEN try_forward(r.at, 1, t) ELSE r

\* one round of the try_fold of try_backward_words
BackwardWord(c, t) ==
    ThenForward(BackwardWhileFrom(BackwardWhileFrom(try_backward(c, 1, t), t, TRUE),
                                  t, FALSE), t)

RECURSIVE try_backward_words(_, _, _)
BackwardWordsFrom(r, n, t) == IF IsOk(r) THEN try_backward_words(r.at, n, t) ELSE r

\* Cursor::try_backward_words
try_backward_words(c, count, t) ==
    IF count = 0 THEN OkAt(c) ELSE BackwardWordsFrom(BackwardWord(c, t), count - 1, t)

\* the modes main.rs enters
MainMode(kind) == [kind |-> kind]

Mn(m, t, c, regs) ==
    [mode |-> m, text |-> t, cursor |-> c, registers |-> regs, panic |-> FALSE]

MnPanic(m, t, c, regs) ==
    [mode |-> m, text |-> t, cursor |-> c, registers |-> regs, panic |-> TRUE]

\* a handler that only moves the cursor
MnMove(m, t, r, regs) ==
    IF IsAborted(r) THEN MnPanic(m, t, r.at, regs) ELSE Mn(m, t, r.at, regs)

\* State::count
count(regs) == regs.count

\* State::consume_count: the register is removed
consume_count(regs) == [regs EXCEPT !.count = None]

\* State::insert_at_cursor(ch).forward(1), then the mode
MnInsert(m, t, c, ch, regs) ==
    IF ~BufInsertOk(t, c) THEN MnPanic(m, t, c, regs)
    ELSE MnMove(m, BufInsert(t, c, ch), try_forward(c, 1, BufInsert(t, c, ch)), regs)

\* buffer.delete(range) of a handler that leaves the cursor at c
MnDelete(m, t, c, from, to, regs) ==
    IF ~BufEditOk(t, from, to) THEN MnPanic(m, t, c, regs)
    ELSE Mn(m, BufDelete(t, from, to), c, regs)

\* `if buffer.get(cursor).is_some() { buffer.delete(cursor..=cursor) }`
MnDeleteAt(m, t, c, regs) ==
    IF c.row = Panics THEN MnPanic(m, t, c, regs)
    ELSE IF BufGet(t, c) = NoChar THEN Mn(m, t, c, regs)
    ELSE MnDelete(m, t, c, Included(c), Included(c), regs)

\* (Operator, Char('W')): the marks are set from the cursor and the end of
\* `count` words, then the callback of (Normal, Char('d')) consumes them
MnOperatorWords(m, t, c, end, regs) ==
    IF end.row = Panics THEN MnPanic(m, t, c, regs)
    ELSE MnDelete(m, t, c, Included(c), Excluded(end), regs)

\* (Insert, Ctrl('w'))
MnDeleteWord(m, t, c, back, regs) ==
    IF back.row = Panics THEN MnPanic(m, t, back, regs)
    ELSE MnDelete(m, t, back, Included(back), Excluded(c), regs)

\* event_loop of main.rs: the arms in their order
main_event_loop(m, t, c, regs, key) ==
    LET k == m.kind
        plain == k \in {"Normal", "Select"}
    IN  IF k = "Insert" /\ key.type = "Esc"
        THEN MnMove(MainMode("Normal"), t, try_at_left(c, 1, t), regs)
        ELSE IF key.type = "Esc" THEN Mn(MainMode("Normal"), t, c, regs)
        ELSE IF (plain /\ IsChar(key, ChH)) \/ key.type = "Left"
        THEN MnMove(m, t, try_at_left(c, 1, t), regs)
        ELSE IF (plain /\ IsChar(key, ChJ)) \/ key.type = "Down"
        THEN MnMove(m, t, try_below(c, 1, t), regs)
        ELSE IF (plain /\ IsChar(key, ChK)) \/ key.type = "Up"
        THEN MnMove(m, t, try_above(c, 1, t), regs)
        ELSE IF (plain /\ IsChar(key, ChL)) \/ key.type = "Right"
        THEN MnMove(m, t, try_at_right(c, 1, t), regs)
        ELSE IF k = "Normal" /\ IsChar(key, ChI) THEN Mn(MainMode("Insert"), t, c, regs)
        ELSE IF k = "Normal" /\ IsChar(key, ChA)
        THEN MnMove(MainMode("Insert"), t, try_at_right(c, 1, t), regs)
        ELSE IF k = "Normal" /\ IsChar(key, ChBigI)
        THEN Mn(MainMode("Insert"), t, at_bol(c, t), regs)
        ELSE IF k = "Normal" /\ IsChar(key, ChBigA)
        THEN Mn(MainMode("Insert"), t, at_eol(c, t), regs)
        ELSE IF k = "Normal" /\ IsChar(key, ChO)
        THEN MnInsert(MainMode("Insert"), t, at_eol(c, t), ChNewline, regs)
        ELSE IF k = "Normal" /\ IsChar(key, ChBigO)
        THEN (IF ~BufInsertOk(t, at_bol(c, t)) THEN MnPanic(m, t, at_bol(c, t), regs)
              ELSE Mn(MainMode("Insert"), BufInsert(t, at_bol(c, t), ChNewline),
                      at_bol(c, t), regs))
        ELSE IF k = "Normal" /\ IsChar(key, ChBigW)
        THEN MnMove(m, t, try_forward_words(c, Times(count(regs)), t), consume_count(regs))
        ELSE IF k = "Normal" /\ IsChar(key, ChD) THEN Mn(MainMode("Operator"), t, c, regs)
        ELSE IF k = "Operator" /\ IsChar(key, ChBigW)
        THEN MnOperatorWords(m, t, c, AtOf(try_forward_words(c, Times(count(regs)), t)),
                             regs)
        ELSE IF k = "Normal" /\ IsChar(key, ChBigB)
        THEN MnMove(m, t, try_backward_words(c, Times(count(regs)), t),
                    consume_count(regs))
        ELSE IF k = "Insert" /\ key.type = "Char" THEN MnInsert(m, t, c, key.ch, regs)
        ELSE IF k = "Insert" /\ key.type = "Backspace"
        THEN MnDeleteAt(m, t, AtOf(try_backward(c, 1, t)), regs)
        ELSE IF k = "Insert" /\ key.type = "Delete" THEN MnDeleteAt(m, t, c, regs)
        ELSE IF k = "Insert" /\ key.type = "CtrlW"
        THEN MnDeleteWord(m, t, c, AtOf(try_backward_words(c, 1, t)), regs)
        ELSE IF k \in {"Normal", "Operator"} /\ IsDigit(key)
        THEN Mn(m, t, c,
                [regs EXCEPT !.count = (IF count(regs) = None THEN 0 ELSE count(regs)) * 10
                                        + Digit(key.ch)])
        ELSE Mn(m, t, c, regs)

MainCommandChars ==
    {ChI, ChA, ChBigI, ChBigA, ChO, ChBigO, ChD, ChBigW, ChBigB, ChH, ChJ, ChK, ChL, Ch0,
     Ch2}

\* the keys explored in a mode of main.rs
MainKeys(m) ==
    SpecialKeys
    \cup {CharKey(ch) : ch \in IF m.kind = "Insert" THEN TypedChars ELSE MainCommandChars}

MainKeyWithinBounds(m, t, regs, key) ==
    /\ key.type = "Char" /\ m.kind = "Insert" => Len(t) + Len(key.ch) <= MaxMainLen
    /\ m.kind = "Normal" /\ (IsChar(key, ChO) \/ IsChar(key, ChBigO)) =>
           Len(t) + 1 <= MaxMainLen
    /\ IsDigit(key) /\ m.kind \in {"Normal", "Operator"} =>
           (IF regs.count = None THEN 0 ELSE regs.count) * 10 + Digit(key.ch) <= MaxRepeat

InitMain ==
    /\ variant = "main"
    /\ text \in Strings(MaxMainInit)
    /\ cursor \in ValidPositions(text)
    /\ mode = MainMode("Normal")
    /\ registers = NoRegisters
    /\ queue = <<>>
    /\ nextId = 1
    /\ fired = [i \in 1..MaxConts |-> 0]
    /\ panicked = FALSE
    /\ steps = 0
    /\ last = NoLast

\* one call of event_loop by the try_fold of main; `last` records the key,
\* the mode it arrived in and the count the register held then
MainLoop ==
    /\ variant = "main" /\ variant' = variant
    /\ ~panicked
    /\ steps < MaxMainKeys
    /\ steps' = steps + 1
    /\ \E key \in MainKeys(mode) :
        /\ MainKeyWithinBounds(mode, text, registers, key)
        /\ \E r \in {main_event_loop(mode, text, cursor, registers, key)} :
            /\ text' = r.text
            /\ cursor' = r.cursor
            /\ mode' = r.mode
            /\ registers' = r.registers
            /\ panicked' = r.panic
            /\ last' = [op |-> key, kind |-> mode.kind,
                        adv |-> IF r.panic THEN "Panic" ELSE "Ok", calls |-> <<>>,
                        dropped |-> 0, repeat |-> registers.count]
    /\ UNCHANGED <<queue, nextId, fired>>

NextMain == MainLoop

SpecMain == InitMain /\ [][NextMain]_vars

----------------------------------------------------------------------------
(* SpecBounded: one Bounded iterator of six/src/cursor/bounded.rs called    *)
(* repeatedly; the iterator owns a Codepoint iterator, whose cursor every   *)
(* call moves                                                               *)

MaxBoundedText == 4

\* Bounded::new(cursor, buffer): chars is Codepoint::new(cursor, buffer)
BoundedIter(c) == [kind |-> "Bounded", chars |-> c]

NoBoundedCall ==
    [op |-> Op("None"), kind |-> "None", adv |-> "None", calls |-> <<>>, dropped |-> 0,
     from |-> None, ret |-> None, reverse |-> FALSE]

InitBounded ==
    /\ variant = "bounded"
    /\ text \in Strings(MaxBoundedText)
    /\ cursor \in Boundaries(text)
    /\ mode = BoundedIter(cursor)
    /\ registers = NoRegisters
    /\ queue = <<>>
    /\ nextId = 1
    /\ fired = [i \in 1..MaxConts |-> 0]
    /\ panicked = FALSE
    /\ steps = 0
    /\ last = NoBoundedCall

\* `match self.chars.next()? { cursor if has_line_break(..) => None, .. }`:
\* n is what the Codepoint iterator yields; it has moved there when it
\* yields a position.  `last` records the direction, where the Codepoint
\* iterator stood and what the call returned; adv is "LineBreak" when None
\* is returned for a line break
BoundedCalled(reverse, n) ==
    /\ variant = "bounded" /\ variant' = variant
    /\ ~panicked
    /\ mode' = IF n >= 0 THEN [mode EXCEPT !.chars = n] ELSE mode
    /\ panicked' = (n = Panics)
    /\ last' = [op |-> Op("Bounded"), kind |-> "Bounded",
                adv |-> IF n = Panics THEN "Panic" ELSE IF n = None THEN "None"
                        ELSE IF has_line_break(n, text) THEN "LineBreak" ELSE "Some",
                calls |-> <<>>, dropped |-> 0, from |-> mode.chars,
                ret |-> IF n >= 0 /\ has_line_break(n, text) THEN None ELSE n,
                reverse |-> reverse]
    /\ UNCHANGED <<text, cursor, registers, queue, nextId, fired, steps>>

\* Bounded::next on the iterator
BoundedIterNext == BoundedCalled(FALSE, CodepointNext(mode.chars, text))

\* Bounded::next_back on the iterator
BoundedIterNextBack == BoundedCalled(TRUE, CodepointPrev(mode.chars, text))

NextBounded == BoundedIterNext \/ BoundedIterNextBack

SpecBounded == InitBounded /\ [][NextBounded]_vars

----------------------------------------------------------------------------
(* SpecCounted: the counted row/column Cursor of src/cursor.rs moved over a *)
(* text by its try_ methods; the caller keeps the position a method returns *)
(* or was interrupted at                                                    *)

MaxCountedText == 3
MaxCount == 3

Motions == {"at_right", "at_left", "below", "above", "forward", "backward"}

\* the try_ method of a motion
TryMotion(motion, c, n, t) ==
    CASE motion = "at_right" -> try_at_right(c, n, t)
      [] motion = "at_left" -> try_at_left(c, n, t)
      [] motion = "below" -> try_below(c, n, t)
      [] motion = "above" -> try_above(c, n, t)
      [] motion = "forward" -> try_forward(c, n, t)
      [] motion = "backward" -> try_backward(c, n, t)

NoMotion ==
    [op |-> Op("None"), kind |-> "None", adv |-> "None", calls |-> <<>>, dropped |-> 0,
     from |-> NoCursor, count |-> 0, ret |-> OkAt(NoCursor)]

InitCounted ==
    /\ variant = "counted"
    /\ text \in Strings(MaxCountedText)
    /\ cursor \in ValidPositions(text)
    /\ mode = Normal
    /\ registers = NoRegisters
    /\ queue = <<>>
    /\ nextId = 1
    /\ fired = [i \in 1..MaxConts |-> 0]
    /\ panicked = FALSE
    /\ steps = 0
    /\ last = NoMotion

\* cursor.at_right(n, buffer), cursor.forward(n, buffer), ...: the try_
\* method, then unwrap_or_else(|partial| partial.at); `last` records the
\* motion, its count, its anchor and the Result of the try_ method
CountedMotion(motion, n, r) ==
    /\ variant = "counted" /\ variant' = variant
    /\ ~panicked
    /\ cursor' = IF IsAborted(r) THEN cursor ELSE r.at
    /\ panicked' = IsAborted(r)
    /\ last' = [op |-> Op(motion), kind |-> "Counted",
                adv |-> IF IsAborted(r) THEN "Panic" ELSE IF IsOk(r) THEN "Ok" ELSE "Err",
                calls |-> <<>>, dropped |-> 0, from |-> cursor, count |-> n, ret |-> r]
    /\ UNCHANGED <<text, mode, registers, queue, nextId, fired, steps>>

Horizontal ==
    \E motion \in {"at_right", "at_left", "forward", "backward"}, n \in 0..MaxCount :
        CountedMotion(motion, n, TryMotion(motion, cursor, n, text))

Vertical ==
    \E motion \in {"below", "above"}, n \in 0..MaxCount :
        CountedMotion(motion, n, TryMotion(motion, cursor, n, text))

NextCounted == Horizontal \/ Vertical

SpecCounted == InitCounted /\ [][NextCounted]_vars

(* Properties of Mode::advance                                              *)

Max(a, b) == IF a >= b THEN a ELSE b

IsMotion(op) ==
    op.type \in {"Left", "Right", "Up", "Down", "Backward", "Forward", "Head", "Tail"}

IsBackward(op) ==
    op.type \in {"Left", "Up", "Backward"} \/ (op.type \in {"Head", "Tail"} /\ op.reverse)

MetricOf(op) ==
    CASE op.type \in {"Left", "Right"} -> "Bounded"
      [] op.type \in {"Up", "Down"} -> "Line"
      [] op.type \in {"Backward", "Forward"} -> "Codepoint"
      [] op.type = "Head" -> "Head"
      [] op.type = "Tail" -> "Tail"

\* the position the motion asks the metric for
Target(op, c, t) ==
    IF IsBackward(op) THEN CursorBackward(MetricOf(op), c, t)
    ELSE CursorForward(MetricOf(op), c, t)

\* this step is one call of Mode::advance
AdvanceStep == steps' = steps + 1

\* this step gives a motion to a pending Operator
OperatorMotion == AdvanceStep /\ mode.kind = "Operator" /\ IsMotion(last'.op)

EscapeYieldsNormal ==
    [][AdvanceStep /\ last'.op.type \in {"Escape", "Esc"} =>
         /\ mode'.kind = "Normal"
         /\ last'.calls = <<>>
         /\ fired' = fired
         /\ text' = text]_vars

\* Escape has dropped a Query whose sub-buffer held input, in a buffer with text
EscapeDroppedQuery ==
    /\ last.op.type = "Escape" /\ last.kind = "Query" /\ mode = Normal
    /\ text # <<>> /\ \E i \in 1..MaxConts : i < nextId /\ fired[i] = 0

IsAbort(m, t, c, op) ==
    \/ IsMotion(op) /\ ~(m.kind = "Query" /\ op.type = "Left")
    \/ m.kind = "Query" /\ op.type = "Input"

SubBuffer(m) ==
    CASE variant = "advance" -> m.buffer.text
      [] variant = "handle_key" -> m.content
      [] variant = "event_loop" -> m.partial.buffer

\* C6 (as stated): a Query with max_length = N fires its continuation on the
\* input of a non-newline character exactly when that character is the N-th
\* of the sub-buffer, whatever the byte width of the characters
QueryFiresOnNthCharacter ==
    [][AdvanceStep /\ mode.kind = "Query" /\ mode.length # None
         /\ last'.op.type \in {"Input", "Char"} /\ last'.op.ch # ChNewline =>
         (last'.calls # <<>> <=> Len(Chars(SubBuffer(mode))) + 1 = mode.length)]_vars

\* C7 (as stated): when the Surround query fires with the two characters
\* prefix, suffix the text is the original with suffix inserted at end and
\* prefix at start, the mode is Normal and the cursor is at start
SurroundInsertsAroundRange ==
    [][AdvanceStep /\ mode.kind = "Query" /\ mode.name = "Surround"
         /\ last'.calls # <<>> /\ Len(Chars(last'.calls[1].str)) = 2 =>
         \A chars \in {Chars(last'.calls[1].str)} :
             /\ ~panicked'
             /\ text' = Splice(Splice(text, mode.cap.end, mode.cap.end, chars[2]),
                               mode.cap.start, mode.cap.start, chars[1])
             /\ mode' = Normal
             /\ cursor' = mode.cap.start]_vars

\* C9 (as stated): while the mode is Query, an Input, a Delete or a motion
\* that does not fire the continuation leaves the main text and the main
\* cursor unchanged
QueryLeavesMainBufferAlone ==
    [][AdvanceStep /\ mode.kind = "Query" /\ last'.calls = <<>>
         /\ (last'.op.type \in {"Input", "Delete"} \/ IsMotion(last'.op)) =>
         text' = text /\ cursor' = cursor]_vars

IsEvalKey(op) == op.type \in {"Eval", "ToEval"} \/ IsChar(op, ChSemicolon)

\* the Eval query m was entered from Normal mode
EnteredFromNormal(m) == variant = "advance" => m.cap.then = Normal

\* C13: Normal + Eval enters a Query with no length limit and an empty
\* sub-buffer; its continuation fires exactly on the input of a newline, with
\* the line collected so far, and after it has fired the mode is Normal
\* whether the script succeeded or raised an error
EvalFiresOnNewlineIntoNormal ==
    [][AdvanceStep =>
         /\ mode.kind = "Normal" /\ IsEvalKey(last'.op) =>
                /\ mode'.kind = "Query" /\ mode'.name = "Eval" /\ mode'.length = None
                /\ SubBuffer(mode') = <<>> /\ last'.calls = <<>>
         /\ mode.kind = "Query" /\ mode.name = "Eval" /\ EnteredFromNormal(mode) =>
                /\ last'.calls # <<>> <=>
                       last'.op.type \in {"Input", "Char"} /\ last'.op.ch = ChNewline
                /\ last'.calls # <<>> =>
                       /\ Len(last'.calls) = 1 /\ last'.calls[1].id = mode.id
                       /\ mode'.kind = "Normal" /\ ~panicked']_vars

\* the Eval query entered from Normal fired on a typed line and the script
\* raised an error: the step aborted into Normal
EvalScriptFailed ==
    /\ variant = "advance"
    /\ last.kind = "Query" /\ last.op = InputOp(ChNewline) /\ last.adv = "Halt"
    /\ Len(last.calls) = 1 /\ last.calls[1].name = "Eval"
    /\ Len(last.calls[1].str) > 1 /\ mode = Normal

\* C14 (as stated): with no Operator pending (mode Normal, Insert or Select)
\* a motion whose metric yields no further position is a no-op: mode, text
\* and cursor are unchanged
ExhaustedPlainMotionIsNoOp ==
    [][AdvanceStep /\ mode.kind \in {"Normal", "Insert", "Select"} /\ IsMotion(last'.op)
         /\ Target(last'.op, cursor, text) = None =>
         mode' = mode /\ text' = text /\ cursor' = cursor]_vars

----------------------------------------------------------------------------
(* Properties of handle_key                                                 *)

\* the position the text object of the action asks its unit for
TextObjectTarget(action, c, t) ==
    CASE action.type = "Bol" -> BoundedFirst(c, t, NoCursor)
      [] action.type = "Word" -> PointsWordNext(c, t)
      [] action.type = "Eow" -> PointsEndOfWordNext(c, t)

\* C3 (as stated): when an Operator is pending and the unit of the requested
\* text object yields no further position, the continuation is not invoked,
\* the mode becomes Normal and the text is unchanged
ImpossibleMotionHaltsToNormal ==
    [][AdvanceStep /\ mode.kind = "Operator"
         /\ last'.op.type \in {"Bol", "Word", "Eow"}
         /\ TextObjectTarget(last'.op, cursor, text) = NoCursor =>
         /\ last'.calls = <<>>
         /\ mode'.kind = "Normal"
         /\ text' = text]_vars

----------------------------------------------------------------------------
(* Properties of event_loop                                                 *)

\* the characters of t with those from position s up to position e removed
WithoutChars(t, s, e) ==
    LET cs == Chars(t)
    IN  Concat(SubSeq(cs, 1, s) \o SubSeq(cs, e + 1, Len(cs)))

\* the characters of t with prefix put before position s and suffix before
\* position e
WithChars(t, s, e, prefix, suffix) ==
    LET cs == Chars(t)
    IN  Concat(SubSeq(cs, 1, s) \o <<prefix>> \o SubSeq(cs, s + 1, e) \o <<suffix>>
               \o SubSeq(cs, e + 1, Len(cs)))

\* the position after the last non-whitespace character of positions s..e-1
RECURSIVE AfterLastWord(_, _, _)
AfterLastWord(cs, s, e) ==
    IF e <= s THEN s
    ELSE IF ~is_whitespace(cs[e]) THEN e
    ELSE AfterLastWord(cs, s, e - 1)

\* the position the word motion of the key reaches
WordTarget(key, m, c, t) ==
    TakeLast(IF IsChar(key, ChBigW) THEN "Word" ELSE "WordBack", c, t, Times(m.repeat),
             NoCursor)

\* C1 (as stated): with Delete pending, a successful motion removes exactly
\* the text between the cursor and the position the motion reaches (the
\* character at the far end stays), leaves the cursor at the start of the
\* removed range and ends in Normal mode
DeleteRemovesExactlyTheRange ==
    [][AdvanceStep /\ mode.kind = "Operator" /\ mode.name = "Delete"
         /\ (IsChar(last'.op, ChBigW) \/ IsChar(last'.op, ChBigB)) =>
         \A p \in {WordTarget(last'.op, mode, cursor, text)} :
             p.row >= 0 =>
             \A s \in {Min(to_offset(text, cursor), to_offset(text, p))},
                e \in {Max(to_offset(text, cursor), to_offset(text, p))} :
                 /\ ~panicked'
                 /\ text' = WithoutChars(text, s, e)
                 /\ to_offset(text', cursor') = s
                 /\ mode'.kind = "Normal"]_vars

\* C8 (as stated): when the range handed to the Surround operator ends in
\* whitespace, the suffix is inserted immediately after the last
\* non-whitespace character of the range and the prefix at its start
SurroundTrimsTrailingWhitespace ==
    [][AdvanceStep /\ mode.kind = "Query" /\ mode.name = "Surround with"
         /\ last'.calls # <<>> /\ Len(Chars(last'.calls[1].str)) = 2 =>
         \A cs \in {Chars(text)}, chars \in {Chars(last'.calls[1].str)},
            s \in {to_offset(text, mode.cap.start)},
            e \in {to_offset(text, mode.cap.given)} :
             s < e /\ e <= Len(cs) /\ is_whitespace(cs[e])
                 /\ AfterLastWord(cs, s, e) > s =>
             /\ ~panicked'
             /\ text' = WithChars(text, s, AfterLastWord(cs, s, e), chars[1], chars[2])]_vars

\* C15 (as stated): after any sequence of operations the cursor is a valid
\* position of the current text: its offset is at most the length of the
\* text; in row/column form its row is a row of the text and its column is
\* at most the length of that row
CursorIsValidPosition ==
    \/ panicked
    \/ IF variant = "advance" THEN cursor >= 0 /\ cursor <= Len(text)
       ELSE /\ cursor.row >= 0 /\ cursor.row < rows(text)
            /\ cursor.col >= 0 /\ cursor.col <= cols_at(text, cursor.row)

\* the cursor rests on a character of its row or right after the last one
OnCharacter(t, p) ==
    /\ p.row >= 0 /\ p.row < rows(t)
    /\ p.col >= 0 /\ p.col <= Len(Chars(lines(t)[p.row + 1]))

\* the characters of t with ch put before position k
WithChar(t, k, ch) ==
    LET cs == Chars(t)
    IN  Concat(SubSeq(cs, 1, k) \o <<ch>> \o SubSeq(cs, k + 1, Len(cs)))

\* C11 (as stated): in Insert mode Input(ch) yields the old text with ch
\* inserted at the old cursor position, moves the cursor one character
\* forward (to column 0 of the next row when ch is a line break) and leaves
\* the mode Insert
InsertInputInsertsAtCursor ==
    [][AdvanceStep /\ mode.kind = "Edit" /\ last'.op.type \in {"Char", "Input"}
         /\ OnCharacter(text, cursor) =>
         /\ ~panicked'
         /\ text' = WithChar(text, to_offset(text, cursor), last'.op.ch)
         /\ to_offset(text', cursor') = to_offset(text, cursor) + 1
         /\ OnCharacter(text', cursor')
         /\ (last'.op.ch = ChNewline => SamePoint(cursor', Cur(0, cursor.row + 1)))
         /\ mode' = mode]_vars

----------------------------------------------------------------------------
(* Properties of the cursor metrics                                         *)

\* this step is one motion of the cursor over the metric, forward or backward
MotionOver(metric, reverse) ==
    /\ last'.kind = "Cursor" /\ last'.op.type = metric /\ last'.op.reverse = reverse
    /\ last'.from = cursor

\* C16: for every text and every cursor on a codepoint boundary, when
\* Codepoint.next succeeds Codepoint.prev of its result is the original
\* cursor, and when Codepoint.prev succeeds Codepoint.next of its result is
\* the original cursor
CodepointNextPrevInverse ==
    [][/\ MotionOver("Codepoint", FALSE) /\ last'.ret # None =>
            CursorBackward("Codepoint", last'.ret, text) = cursor
       /\ MotionOver("Codepoint", TRUE) /\ last'.ret # None =>
            CursorForward("Codepoint", last'.ret, text) = cursor]_vars

\* Codepoint.next has stepped over a two-byte character
SteppedOverMultiByte ==
    /\ last.kind = "Cursor" /\ last.op.type = "Codepoint" /\ ~last.op.reverse
    /\ last.ret = last.from + 2 /\ cursor = last.ret /\ last.from > 0

\* the offset is the end of its line: a line break or the end of the text
AtLineEnd(c, t) == c = Len(t) \/ has_line_break(c, t)

\* the offset is the start of its line
AtLineStart(c, t) == c = 0 \/ t[c] = 10

\* C17 (as stated): every cursor Bounded.next or Bounded.prev returns lies
\* on the line of the anchor, for every anchor including one on a line break
\* or on an empty line, and at the end (start) of the line next (prev)
\* returns None
BoundedStaysOnLine ==
    [][/\ MotionOver("Bounded", FALSE) =>
            /\ last'.ret # None => to_row(last'.ret, text) = to_row(cursor, text)
            /\ AtLineEnd(cursor, text) => last'.ret = None
       /\ MotionOver("Bounded", TRUE) =>
            /\ last'.ret # None => to_row(last'.ret, text) = to_row(cursor, text)
            /\ AtLineStart(cursor, text) => last'.ret = None]_vars

\* the number of characters of a row of the text
RowLength(t, row) == Len(Chars(lines(t)[row + 1]))

\* the offset lies on the given row at the desired column, or at the end of
\* the row when the row is shorter
OnRowAtColumn(c, t, row, column) ==
    to_row(c, t) = row /\ to_col(c, t) = Min(column, RowLength(t, row))

\* C18 (as stated): Line.next returns a cursor on exactly the next row and
\* Line.prev on exactly the previous row, never skipping a row even when the
\* adjacent row is empty, at column min(desired column, length of the target
\* row); it returns None when the anchor is on the last (first) row
LineMovesToAdjacentRow ==
    [][/\ MotionOver("Line", FALSE) =>
            IF to_row(cursor, text) = rows(text) - 1 THEN last'.ret = None
            ELSE /\ last'.ret # None
                 /\ OnRowAtColumn(last'.ret, text, to_row(cursor, text) + 1,
                                  to_col(cursor, text))
       /\ MotionOver("Line", TRUE) =>
            IF to_row(cursor, text) = 0 THEN last'.ret = None
            ELSE /\ last'.ret # None
                 /\ OnRowAtColumn(last'.ret, text, to_row(cursor, text) - 1,
                                  to_col(cursor, text))]_vars

\* C19 (as stated): a successful Down (one that reached the row below)
\* followed by a successful Up, issued as two separate motions, returns the
\* cursor to its original row and column, also when the row below is shorter
\* than the original column
DownThenUpReturns ==
    [][last.kind = "Cursor" /\ last.op.type = "Line" /\ ~last.op.reverse
         /\ last.ret # None /\ cursor = last.ret
         /\ to_row(cursor, text) = to_row(last.from, text) + 1
         /\ MotionOver("Line", TRUE) /\ last'.ret # None =>
         /\ to_row(cursor', text) = to_row(last.from, text)
         /\ to_col(cursor', text) = to_col(last.from, text)]_vars

\* the positions of t that hold a non-whitespace character preceded by
\* whitespace or by the start of the text
WordHeads(t) ==
    {p \in Boundaries(t) :
        /\ p < Len(t) /\ ~is_whitespace(CharAt(t, p))
        /\ p = 0 \/ is_whitespace(CharAt(t, BackToBoundary(p - 1, t)))}

\* C20 (as stated): for every text, also one whose words start with a
\* multi-byte character, Head.next returns the smallest word head after the
\* cursor and Head.prev the largest word head before it, None when there is
\* none
HeadFindsNearestWordHead ==
    [][/\ MotionOver("Head", FALSE) =>
            last'.ret = FirstOf({p \in WordHeads(text) : p > cursor})
       /\ MotionOver("Head", TRUE) =>
            last'.ret = LastOf({p \in WordHeads(text) : p < cursor})]_vars

----------------------------------------------------------------------------
(* Properties of the units of the row/column Cursor under handle_key        *)

\* the character indexes of t that hold a non-whitespace character followed
\* by whitespace or by the end of the text
WordEnds(t) ==
    {k \in 0..(Len(Chars(t)) - 1) :
        /\ ~is_whitespace(Chars(t)[k + 1])
        /\ k + 1 = Len(Chars(t)) \/ is_whitespace(Chars(t)[k + 2])}

\* C21 (as stated): moving over the word-end unit from Normal puts the
\* cursor on the nearest position after it that holds a non-whitespace
\* character followed by whitespace or by the end of the buffer, and leaves
\* it where it is (the unit returns None) when there is no such position
EndOfWordFindsNearestWordEnd ==
    [][AdvanceStep /\ mode.kind = "Normal" /\ last'.op.type = "Eow" =>
         LET ends == {k \in WordEnds(text) : k > to_offset(text, cursor)}
         IN  IF ends = {} THEN SamePoint(cursor', cursor)
             ELSE to_offset(text, cursor') = FirstOf(ends)]_vars

----------------------------------------------------------------------------
(* Properties of the iterators over the row/column Cursor                   *)

\* this step is one call of next (or of next_back when reverse) on the
\* iterator of the unit
CallOn(unit, reverse) ==
    /\ last'.kind = "Iter" /\ last'.op.type = unit /\ last'.op.reverse = reverse
    /\ SamePoint(last'.from, cursor)

\* the character indexes of t that hold a character other than a line break
\* whose two preceding characters are line breaks; a line break that starts
\* the text is counted as following a blank line
ParagraphStarts(t) ==
    {k \in 1..(Len(Chars(t)) - 1) :
        /\ Chars(t)[k + 1] # ChNewline
        /\ Chars(t)[k] = ChNewline
        /\ k = 1 \/ Chars(t)[k - 1] = ChNewline}

\* the index of the nearest paragraph start after (before) the position
ParagraphAfter(t, p) == FirstOf({k \in ParagraphStarts(t) : k > to_offset(t, p)})

ParagraphBefore(t, p) == LastOf({k \in ParagraphStarts(t) : k < to_offset(t, p)})

\* what the call returned is the position of character index k of the
\* text, and nothing when k is None
Returned(ret, t, k) ==
    IF k = None THEN ret = NoCursor ELSE ret.row >= 0 /\ to_offset(t, ret) = k

\* C22 (as stated): next (next_back) of the paragraph iterators, Points<Paragraph>
\* and Paragraphs, returns the nearest position after (before) the anchor
\* that holds a character other than a line break preceded by two line
\* breaks, and None when there is none
ParagraphFindsNearestStart ==
    [][/\ CallOn("Paragraph", FALSE) \/ CallOn("Paragraphs", FALSE) =>
            Returned(last'.ret, text, ParagraphAfter(text, cursor))
       /\ CallOn("Paragraph", TRUE) \/ CallOn("Paragraphs", TRUE) =>
            Returned(last'.ret, text, ParagraphBefore(text, cursor))]_vars

\* p comes before q in the order of the text
Before(p, q) == p.row < q.row \/ (p.row = q.row /\ p.col < q.col)

\* the position is one of the buffer: an existing row and a column up to
\* the length of that row
IsValidPosition(p, t) == p.row < rows(t) /\ p.col <= cols_at(t, p.row)

\* C23 (as stated): every position next or next_back of the
\* character-stepping iterators Char and Cells yields from a valid position
\* is a valid position of the buffer, after the anchor for next and before
\* it for next_back, so that each direction ends after finitely many steps
SteppingYieldsValidPositions ==
    [][(last'.kind = "Iter" /\ last'.op.type \in {"Char", "Cells"}
          /\ SamePoint(last'.from, cursor) /\ IsValidPosition(cursor, text)
          /\ last'.ret.row >= 0) =>
         /\ IsValidPosition(last'.ret, text)
         /\ IF last'.op.reverse THEN Before(last'.ret, cursor)
            ELSE Before(cursor, last'.ret)]_vars

----------------------------------------------------------------------------
(* Properties of Buf                                                        *)

\* the position is within the buffer: an existing row and a column up to
\* the number of characters of that row
InBounds(p, t) == p.row < rows(t) /\ p.col <= Len(Chars(lines(t)[p.row + 1]))

\* this step is the call `name` of Buf
BufCall(name) == last'.kind = "Buf" /\ last'.op.type = name /\ last'.before = text

\* C24 (as stated): delete(r) of a range r between two positions within the
\* buffer, start not after end, completes, and edit(r.start..r.start, the
\* removed text) after it restores the text the delete was made on
DeleteThenEditRestores ==
    [][/\ BufCall("delete") /\ InBounds(last'.from, text) /\ InBounds(last'.to, text)
            /\ to_offset(text, last'.from) <= to_offset(text, last'.to) =>
            last'.adv = "Ok"
       /\ last.kind = "Buf" /\ last.op.type = "delete" /\ last.adv = "Ok"
            /\ BufCall("edit") /\ SamePoint(last'.from, last.from)
            /\ SamePoint(last'.to, last.from) /\ last'.ins = last.removed =>
            last'.adv = "Ok" /\ text' = last.before]_vars

\* C25 (as stated): insert(p, ch) at a position p within the buffer
\* completes, also on content with multi-byte characters, and yields a
\* buffer in which get(p) = ch and the other characters are those of the
\* old buffer in their order
InsertPutsCharacterAtPoint ==
    [][BufCall("insert") /\ InBounds(last'.from, text) =>
         /\ last'.adv = "Ok"
         /\ BufGet(text', last'.from) = last'.ins
         /\ text' = WithChar(text, to_offset(text, last'.from), last'.ins)]_vars

----------------------------------------------------------------------------
(* Properties of Mode::advance: the line motions                            *)

\* the start and the end of the line the offset is on
BolOf(c, t) == LineStart(RFindNewline(t, c))

EolOf(c, t) == OrElse(FindNewline(t, c), Len(t))

\* the offset Bol or Eol is to move the cursor to
LineEdge(op, c, t) == IF op.type = "Bol" THEN BolOf(c, t) ELSE EolOf(c, t)

\* C26 (as stated): in Mode::advance, Bol moves the cursor to the beginning
\* of its line and Eol to the end of its line, and with an Operator pending
\* the continuation is invoked with the range between the old and the new
\* cursor
BolEolMoveWithinLine ==
    [][/\ AdvanceStep /\ last'.op.type \in {"Bol", "Eol"}
            /\ mode.kind \in {"Normal", "Insert", "Select"} =>
            cursor' = LineEdge(last'.op, cursor, text) /\ text' = text
       /\ AdvanceStep /\ last'.op.type \in {"Bol", "Eol"} /\ mode.kind = "Operator"
            /\ LineEdge(last'.op, cursor, text) # cursor =>
            /\ Len(last'.calls) = 1
            /\ last'.calls[1].id = mode.id
            /\ last'.calls[1].start = Min(cursor, LineEdge(last'.op, cursor, text))
            /\ last'.calls[1].end = Max(cursor, LineEdge(last'.op, cursor, text))]_vars

----------------------------------------------------------------------------
(* Properties of event_loop: opening lines, operators and repeat counts     *)

\* every character of the text is one byte long
OneByteCharacters(t) == \A i \in 1..Len(t) : t[i] < 128

\* the lines of t with one empty line put in as row `row`
WithEmptyLine(t, row) ==
    SubSeq(lines(t), 1, row) \o << <<>> >> \o SubSeq(lines(t), row + 1, rows(t))

\* the step is the key of the character ch typed in Normal
TypedInNormal(ch) ==
    AdvanceStep /\ mode.kind = "Normal" /\ last'.op.type = "Char" /\ last'.op.ch = ch

\* the line has been opened as row `row`: one new empty row there, the
\* cursor at its column 0, the mode Edit
LineOpened(row) ==
    /\ ~panicked'
    /\ lines(text') = WithEmptyLine(text, row)
    /\ SamePoint(cursor', Cur(0, row))
    /\ mode'.kind = "Edit"

\* C27 (as stated, on texts of one-byte characters): from Normal, 'O' opens
\* one new empty line at the row of the cursor and 'o' at the row below it,
\* leaves the cursor at column 0 of the new line and enters the insert mode
OpenLinePutsCursorOnNewLine ==
    [][/\ TypedInNormal(ChBigO) /\ OneByteCharacters(text) /\ OnCharacter(text, cursor) =>
            LineOpened(cursor.row)
       /\ TypedInNormal(ChO) /\ OneByteCharacters(text) /\ OnCharacter(text, cursor) =>
            LineOpened(cursor.row + 1)]_vars

\* the step gives the key of the character ch to a pending Operator
TypedToOperator(ch) ==
    AdvanceStep /\ mode.kind = "Operator" /\ last'.op.type = "Char" /\ last'.op.ch = ch

\* the word motion of the pending Operator yields no position: there is no
\* further word in that direction, or the repeat count is 0
NoWordFor(unit) == TakeLast(unit, cursor, text, Times(mode.repeat), NoCursor) = NoCursor

\* C28 (as stated): when the word motion given to a pending Operator cannot
\* be performed, event_loop does not panic, the mode returns to Normal and
\* the text is unchanged
ImpossibleOperatorMotionReturnsToNormal ==
    [][(TypedToOperator(ChBigW) /\ NoWordFor("Word"))
         \/ (TypedToOperator(ChBigB) /\ NoWordFor("WordBack")) =>
         ~panicked' /\ mode'.kind = "Normal" /\ text' = text]_vars

\* the unit a key moves the cursor over in Normal or Select, "None" for a
\* key that is no motion there
MotionUnit(kind, key) ==
    IF IsChar(key, ChH) \/ key.type = "Left" THEN "BoundedBack"
    ELSE IF IsChar(key, ChJ) \/ key.type = "Down" THEN "Line"
    ELSE IF IsChar(key, ChK) \/ key.type = "Up" THEN "LineBack"
    ELSE IF IsChar(key, ChL) \/ key.type = "Right" THEN "Bounded"
    ELSE IF kind = "Normal" /\ IsChar(key, ChBigW) THEN "Word"
    ELSE IF kind = "Normal" /\ IsChar(key, ChBigB) THEN "WordBack"
    ELSE "None"

\* the position n steps of the unit away from a, or as far as the unit goes
RECURSIVE Walk(_, _, _, _)
Walk(unit, a, t, n) ==
    IF n = 0 \/ UnitNext(unit, a, t).row < 0 THEN a
    ELSE Walk(unit, UnitNext(unit, a, t), t, n - 1)

\* the value of the digits typed so far followed by the digit ch
CountWith(repeat, ch) == (IF repeat = None THEN 0 ELSE repeat) * 10 + Digit(ch)

\* the repeat count of the event_loop of state.rs, which the mode holds: a
\* digit typed in Normal, Select or Operator appends to
\* the decimal repeat count; a motion typed in Normal or Select moves the
\* cursor exactly that many steps of its unit (one step without a count,
\* fewer only when the unit is exhausted) and clears the count; and when the
\* callback of an Operator has been invoked the mode is Normal without a
\* count
RepeatCountStepsMotion ==
    [][/\ AdvanceStep /\ mode.kind \in {"Normal", "Select", "Operator"} /\ IsDigit(last'.op) =>
            /\ mode'.kind = mode.kind
            /\ mode'.repeat = CountWith(mode.repeat, last'.op.ch)
            /\ text' = text /\ SamePoint(cursor', cursor)
       /\ AdvanceStep /\ mode.kind \in {"Normal", "Select"}
            /\ MotionUnit(mode.kind, last'.op) # "None" /\ ~panicked' =>
            /\ SamePoint(cursor', Walk(MotionUnit(mode.kind, last'.op), cursor, text,
                                       Times(mode.repeat)))
            /\ mode'.kind = mode.kind /\ mode'.repeat = None
            /\ text' = text
       /\ AdvanceStep /\ mode.kind = "Operator" /\ mode.name = "Delete"
            /\ last'.calls # <<>> /\ ~panicked' =>
            /\ mode' = NormalRepeat(None)
            /\ IsChar(last'.op, ChBigW) =>
                   SamePoint(last'.calls[1].end, Walk("Word", cursor, text, Times(mode.repeat)))
            /\ IsChar(last'.op, ChBigB) =>
                   SamePoint(last'.calls[1].start,
                             Walk("WordBack", cursor, text, Times(mode.repeat)))]_vars

\* the count 2 was pending when 'l' arrived in Normal, and the cursor stands
\* two columns further on a row long enough, without a count
MovedTwiceByCount ==
    /\ variant = "event_loop" /\ ~panicked
    /\ last.kind = "Normal" /\ IsChar(last.op, ChL) /\ last.repeat = 2
    /\ cursor.col = 2 /\ cols_at(text, cursor.row) >= 3
    /\ mode = NormalRepeat(None)

\* `n` rounds of the word motion, stopping where one is interrupted
RECURSIVE WalkWords(_, _, _, _)
WalkWords(c, t, n, back) ==
    IF n = 0 THEN c
    ELSE IF ~IsOk(IF back THEN BackwardWord(c, t) ELSE ForwardWord(c, t))
    THEN AtOf(IF back THEN BackwardWord(c, t) ELSE ForwardWord(c, t))
    ELSE WalkWords(AtOf(IF back THEN BackwardWord(c, t) ELSE ForwardWord(c, t)), t, n - 1,
                   back)

MainTyped(kind, ch) ==
    /\ variant = "main" /\ AdvanceStep /\ ~panicked'
    /\ mode.kind = kind /\ IsChar(last'.op, ch)

\* C29: in the event_loop of main.rs a digit typed in Normal or Operator
\* appends to the decimal count of the count register; 'W' and 'B' typed in
\* Normal move the cursor exactly that many words (one without a count, fewer
\* only where the buffer ends) and leave the register empty; and 'W' typed in
\* Operator hands the operator the range of that many words and leaves the
\* register empty, so that the count does not reach a later command
RepeatCountClearedAfterCommand ==
    [][/\ (MainTyped("Normal", Ch0) \/ MainTyped("Normal", Ch2)
             \/ MainTyped("Operator", Ch0) \/ MainTyped("Operator", Ch2)) =>
            /\ registers'.count = CountWith(registers.count, last'.op.ch)
            /\ text' = text /\ cursor' = cursor /\ mode' = mode
       /\ MainTyped("Normal", ChBigW) =>
            /\ cursor' = WalkWords(cursor, text, Times(registers.count), FALSE)
            /\ registers'.count = None /\ text' = text
       /\ MainTyped("Normal", ChBigB) =>
            /\ cursor' = WalkWords(cursor, text, Times(registers.count), TRUE)
            /\ registers'.count = None /\ text' = text
       /\ MainTyped("Operator", ChBigW) =>
            /\ text' = BufDelete(text, Included(cursor),
                                 Excluded(WalkWords(cursor, text, Times(registers.count),
                                                    FALSE)))
            /\ registers'.count = None]_vars

\* the count 2 was in the register when 'W' arrived in Operator, and the
\* operator has deleted from the cursor on
OperatorTookCount ==
    /\ variant = "main" /\ ~panicked
    /\ last.kind = "Operator" /\ IsChar(last.op, ChBigW) /\ last.repeat = 2
    /\ text = ChA \o ChSpace

----------------------------------------------------------------------------
(* Properties of the Surround query                                         *)

\* this step invokes the continuation of the Surround query
SurroundQueryInvoked ==
    /\ AdvanceStep /\ variant \in {"advance", "event_loop"}
    /\ mode.kind = "Query" /\ mode.name \in {"Surround", "Surround with"}
    /\ last'.calls # <<>>

\* C30: whenever the continuation of the Surround query is invoked, the
\* string handed to it has exactly two characters
SurroundInvokedWithTwoCharacters ==
    [][SurroundQueryInvoked => Len(Chars(last'.calls[1].str)) = 2]_vars

\* the continuation of the Surround query was invoked with the newline typed
\* as the first character, and taking the suffix aborted
SurroundInvokedWithNewlineOnly ==
    /\ last.kind = "Query" /\ last.calls # <<>>
    /\ last.calls[1].name \in {"Surround", "Surround with"}
    /\ last.calls[1].str = ChNewline
    /\ panicked

----------------------------------------------------------------------------
(* Properties of Mode::advance: character input outside Insert              *)

\* C31: in Mode::advance, Input(ch) arriving in Normal, Select or Operator
\* mode leaves the text of the main buffer unchanged
InputOutsideInsertKeepsText ==
    [][AdvanceStep /\ variant = "advance" /\ last'.op.type = "Input"
         /\ mode.kind \in {"Normal", "Select", "Operator"} => text' = text]_vars

\* Input('a') arrived in Normal and the main buffer holds it now
InputAppliedInNormal ==
    /\ variant = "advance" /\ ~panicked
    /\ last.kind = "Normal" /\ last.op = InputOp(ChA) /\ last.adv = "Continue"
    /\ mode = Normal /\ text = ChA

----------------------------------------------------------------------------
(* Properties of Backspace in the event loops                               *)

\* this step handles Backspace in the text input mode and does not abort
BackspaceTyped ==
    /\ AdvanceStep /\ variant \in {"event_loop", "main"} /\ ~panicked'
    /\ mode.kind \in {"Edit", "Insert"} /\ last'.op.type = "Backspace"

\* the position immediately before p: one column back, or the end of the
\* row above
PositionBefore(p, t) ==
    IF p.col > 0 THEN Cur(p.col - 1, p.row) ELSE Cur(cols_at(t, p.row - 1), p.row - 1)

\* the characters of t without the one at index k (from 0)
WithoutCharacter(t, k) ==
    Concat(SubSeq(Chars(t), 1, k) \o SubSeq(Chars(t), k + 2, Len(Chars(t))))

\* C32: Backspace in the text input mode removes exactly the character
\* immediately before the cursor and puts the cursor on its position; with
\* the cursor at the start of the buffer it changes neither text nor cursor
BackspaceRemovesCharacterBefore ==
    [][BackspaceTyped =>
         IF cursor.row = 0 /\ cursor.col = 0
         THEN text' = text /\ SamePoint(cursor', cursor)
         ELSE /\ SamePoint(cursor', PositionBefore(cursor, text))
              /\ text' = WithoutCharacter(text, to_offset(text, PositionBefore(cursor, text)))]_vars

\* Backspace arrived as the second key with the cursor at the start of a
\* buffer of one character, and the buffer is empty now
BackspaceAtStartDeleted ==
    /\ variant \in {"event_loop", "main"} /\ ~panicked
    /\ last.kind \in {"Edit", "Insert"} /\ last.op.type = "Backspace"
    /\ text = <<>> /\ cursor.row = 0 /\ cursor.col = 0 /\ steps = 2

----------------------------------------------------------------------------
(* Properties of one Bounded iterator called repeatedly                     *)

\* C33: when a call of a Bounded iterator has returned None because a line
\* break was reached, the next call in the same direction on that iterator
\* returns None as well
BoundedStaysBeforeLineBreak ==
    [][variant = "bounded" /\ last.kind = "Bounded" /\ last.adv = "LineBreak"
         /\ last'.reverse = last.reverse /\ ~panicked' => last'.ret = None]_vars

\* a call of next has yielded the position after the line break on which
\* the Codepoint iterator of the Bounded iterator stood
BoundedSteppedPastLineBreak ==
    /\ variant = "bounded" /\ last.kind = "Bounded" /\ ~last.reverse
    /\ has_line_break(last.from, text) /\ last.ret = last.from + 1
    /\ last.from > cursor

----------------------------------------------------------------------------
(* Properties of the character iterators over rows and columns              *)

CharacterUnits == {"Char", "IterChar", "Cells"}

\* the length of a row as the iterator of the unit reads it
UnitRowLength(unit, t, row) == IF unit = "Cells" THEN line_len(t, row) ELSE cols_at(t, row)

\* C34: next_back of a character iterator (Points<Char>, Iter<char>, Cells)
\* from column 0 of a row r > 0 of the buffer yields the end of row r - 1,
\* and a next from a position of the buffer that has crossed a line break
\* onto the next row is undone by next_back
BackwardFromRowStartLandsOnRowEnd ==
    [][\A unit \in CharacterUnits :
         /\ CallOn(unit, TRUE) /\ cursor.col = 0 /\ cursor.row > 0
              /\ cursor.row < rows(text) =>
              SamePoint(last'.ret, Cur(UnitRowLength(unit, text, cursor.row - 1), cursor.row - 1))
         /\ CallOn(unit, FALSE) /\ last'.ret.row = cursor.row + 1
              /\ last'.ret.row < rows(text)
              /\ cursor.col <= UnitRowLength(unit, text, cursor.row) =>
              SamePoint(IterNextBack(unit, last'.ret, text), cursor)]_vars

\* Points<Char>::next_back was called at the start of the second row of
\* "a\n" and yielded the start of the first row
CharSteppedBackToRowStart ==
    /\ variant = "points" /\ last.kind = "Iter" /\ last.op.type = "Char" /\ last.op.reverse
    /\ text = ChA \o ChNewline /\ SamePoint(last.from, Cur(0, 1))
    /\ SamePoint(last.ret, Cur(0, 0)) /\ SamePoint(cursor, Cur(0, 0))

----------------------------------------------------------------------------
(* Properties of the word iterator over the row/column Cursor               *)

\* the character indexes of t that hold a non-whitespace character preceded
\* by whitespace
WordStarts(t) ==
    {k \in 1..(Len(Chars(t)) - 1) :
        ~is_whitespace(Chars(t)[k + 1]) /\ is_whitespace(Chars(t)[k])}

WordStartAfter(t, p) == FirstOf({k \in WordStarts(t) : k > to_offset(t, p)})

\* the nearest word start before the position, the start of the buffer when
\* there is none
WordStartBefore(t, p) ==
    IF {k \in WordStarts(t) : k < to_offset(t, p)} = {} THEN 0
    ELSE LastOf({k \in WordStarts(t) : k < to_offset(t, p)})

\* C35: Points<Word>::next returns the nearest word start after the anchor
\* when there is one, also from an anchor on the whitespace right before
\* it, and Points<Word>::next_back from an anchor past the start of the
\* buffer returns the nearest word start before the anchor, or the start of
\* the buffer
WordFindsNearestWordStart ==
    [][/\ CallOn("Word", FALSE) /\ WordStartAfter(text, cursor) # None =>
            Returned(last'.ret, text, WordStartAfter(text, cursor))
       /\ CallOn("Word", TRUE) /\ to_offset(text, cursor) > 0 =>
            Returned(last'.ret, text, WordStartBefore(text, cursor))]_vars

\* Points<Word>::next was called on the space of " a" and yielded the end
\* of the row, past the word
WordSkippedFromWhitespace ==
    /\ variant = "points" /\ last.kind = "Iter" /\ last.op.type = "Word" /\ ~last.op.reverse
    /\ text = ChSpace \o ChA /\ SamePoint(last.from, Cur(0, 0))
    /\ SamePoint(last.ret, Cur(2, 0))

----------------------------------------------------------------------------
(* Properties of the counted row/column Cursor                              *)

\* this step is the motion with a count of at least one, completed or
\* interrupted
CountedCall(motion) ==
    /\ variant = "counted" /\ last'.kind = "Counted" /\ last'.op.type = motion
    /\ last'.from = cursor /\ last'.count > 0 /\ ~panicked'

\* C36: after a horizontal motion of the Cursor (at_left, at_right, forward,
\* backward) the sticky column `offset` equals the column the motion arrived
\* at
HorizontalMotionSetsStickyColumn ==
    [][CountedCall("at_right") \/ CountedCall("at_left") \/ CountedCall("forward")
         \/ CountedCall("backward") => cursor'.offset = cursor'.col]_vars

\* forward has crossed a line break and the sticky column is not the column
\* it arrived at
StickyColumnLeftBehind ==
    /\ variant = "counted" /\ last.kind = "Counted" /\ last.op.type = "forward"
    /\ last.adv = "Ok" /\ cursor.row = last.from.row + 1
    /\ cursor.col = 0 /\ cursor.offset > 0


\* the index of a position among the positions of the buffer in their
\* order: a row has one position more than columns, the last of which
\* stands for its line break
RECURSIVE PositionsBefore(_, _)
PositionsBefore(t, row) ==
    IF row = 0 THEN 0 ELSE PositionsBefore(t, row - 1) + cols_at(t, row - 1) + 1

PositionIndex(p, t) == PositionsBefore(t, p.row) + p.col

LastPosition(t) == Cur(cols_at(t, rows(t) - 1), rows(t) - 1)

\* this step is the motion with any count
CountedCallOf(motion) ==
    variant = "counted" /\ last'.kind = "Counted" /\ last'.op.type = motion
        /\ last'.from = cursor

\* C37: try_forward(n) returns Ok of the position exactly n positions after
\* the cursor when the buffer has it, and otherwise Err(Partial) at the last
\* position of the buffer with remaining = n less the positions advanced;
\* try_backward(n) does the same towards the first position; and
\* try_backward(n) from the result of a successful try_forward(n) returns
\* to the row and column of the cursor
TryForwardAdvancesExactly ==
    [][/\ CountedCallOf("forward") =>
            \A r \in {last'.ret}, n \in {last'.count} :
                IF PositionIndex(cursor, text) + n <= PositionIndex(LastPosition(text), text)
                THEN /\ IsOk(r)
                     /\ PositionIndex(r.at, text) = PositionIndex(cursor, text) + n
                     /\ IsOk(try_backward(r.at, n, text))
                     /\ SamePoint(try_backward(r.at, n, text).at, cursor)
                ELSE /\ ~IsOk(r) /\ ~IsAborted(r)
                     /\ SamePoint(r.at, LastPosition(text))
                     /\ r.remaining = n - (PositionIndex(r.at, text) - PositionIndex(cursor, text))
       /\ CountedCallOf("backward") =>
            \A r \in {last'.ret}, n \in {last'.count} :
                IF n <= PositionIndex(cursor, text)
                THEN /\ IsOk(r)
                     /\ PositionIndex(r.at, text) = PositionIndex(cursor, text) - n
                ELSE /\ ~IsOk(r) /\ ~IsAborted(r)
                     /\ SamePoint(r.at, Cur(0, 0))
                     /\ r.remaining = n - PositionIndex(cursor, text)]_vars

\* try_forward(3) has returned Ok two rows below its anchor
ForwardCrossedTwoLineBreaks ==
    /\ variant = "counted" /\ last.kind = "Counted" /\ last.op.type = "forward"
    /\ last.count = 3 /\ last.adv = "Ok" /\ cursor.row = last.from.row + 2
    /\ cursor = last.ret.at


----------------------------------------------------------------------------
(* Properties of to_offset_bound                                            *)

\* C38: to_offset_bound maps Unbounded to Unbounded and Excluded(c) to
\* Excluded(c.offset); for every cursor c on a codepoint boundary,
\* Included(c) maps to an inclusive byte bound whose end is a codepoint
\* boundary within the buffer, the end of the codepoint that starts at c
\* when there is one.
OffsetBoundCoversCodepoint ==
    [][variant = "cursor" /\ last'.kind = "Bound" =>
          CASE last'.op.type = "Unbounded" -> last'.adv = "Unbounded"
            [] last'.op.type = "Excluded" ->
                  last'.adv = "Excluded" /\ last'.ret = cursor
            [] last'.op.type = "Included" ->
                  /\ last'.adv = "Included"
                  /\ last'.ret + 1 <= Len(text)
                  /\ is_char_boundary(text, last'.ret + 1)
                  /\ cursor < Len(text) =>
                        last'.ret + 1 = CodepointNext(cursor, text)]_vars

\* Included at the end of the buffer "a" became the inclusive bound 1, one
\* byte past the last byte of the buffer
IncludedAtEndPastBuffer ==
    /\ variant = "cursor" /\ last.kind = "Bound"
    /\ text = ChA /\ cursor = 1
    /\ last.op.type = "Included" /\ last.from = 1
    /\ last.adv = "Included" /\ last.ret = 1


----------------------------------------------------------------------------
(* Properties of the Left and Right keys in event_loop                      *)

\* this step handles the key `ty` in event_loop and does not abort
ArrowTyped(ty) ==
    /\ AdvanceStep /\ variant = "event_loop" /\ ~panicked'
    /\ last'.op.type = ty

\* C39: in every mode of event_loop the Left key never moves the cursor to
\* a higher column, the Right key never moves it to a lower column, and
\* neither changes the row of the cursor
LeftRightStayInRow ==
    [][/\ ArrowTyped("Left") => cursor'.row = cursor.row /\ cursor'.col <= cursor.col
       /\ ArrowTyped("Right") => cursor'.row = cursor.row /\ cursor'.col >= cursor.col]_vars

\* Left arrived in the text input mode over the buffer "aa" and the cursor
\* is on the second column now, where only a step from the first column
\* puts it
LeftMovedRightInEdit ==
    /\ variant = "event_loop" /\ ~panicked
    /\ last.kind = "Edit" /\ last.op.type = "Left"
    /\ text = ChA \o ChA /\ cursor.row = 0 /\ cursor.col = 1

====
